---- MODULE Spec2Model ----
(***************************************************************************)
(* A state-machine model of js/game.js (bicycle rider game): the per-frame *)
(* physics step (updateBicycle), the wipeout timeline, collision detection *)
(* and response, the objective pickup and the terrain height query.        *)
(*                                                                         *)
(* Numbers are fixed point:                                                *)
(*   time                      milliseconds                                *)
(*   world lengths, heights    1/1000 world unit                           *)
(*   speed (gameSpeed)         1/10000                                     *)
(*   angles                    1/10000 radian                              *)
(*   unit vectors, fractions,  1/1000                                      *)
(*   Math.random()             1/1000, a value of RandomValues             *)
(* Products are divided back with DivT (truncation toward zero).           *)
(***************************************************************************)
EXTENDS Integers, Sequences, FiniteSets, Bags, TLC

VARIABLES
    gameStarted,        \* let gameStarted (popup dismissed)
    keys,               \* let keys = { w, left, right, up, down, space, s, e }
    gameSpeed,
    steerAngle,
    leanAngle,
    collisionOccurred,
    collisionCooldown,
    playerScore,
    objectiveBeam,      \* the active target: objectiveBeam.position, [x, z]
    sceneBeams,         \* the beam groups in the scene, a bag of positions
    isJumping,
    jumpVelocity,
    isWheelieMode,
    wheelieAngle,
    twistAngle,
    originalDirection,  \* THREE.Vector3, x and z components (y is always 0)
    isWipingOut,
    wipeOutTime,
    bicycle,            \* [position |-> [x, y, z], rotation |-> [x, y, z]]
    terrain,            \* which heightfield createTerrain produced
    obstacles,          \* the obstacle list createObstacles produced
    flagTimer,          \* the pending setTimeout of handleCollision: ms left, -1 if none
    elapsed,            \* ms known to have passed since the clock was last read
    frames,             \* frames run so far
    keyEvents,          \* key presses and start clicks so far
    budget,             \* the frames and key presses a run is followed for
    last,               \* what the last step did (observations of the run)
    probe               \* the pure-function specifications: argument and result

vars == << gameStarted, keys, gameSpeed, steerAngle, leanAngle, collisionOccurred,
           collisionCooldown, playerScore, objectiveBeam, sceneBeams, isJumping,
           jumpVelocity,
           isWheelieMode, wheelieAngle, twistAngle, originalDirection, isWipingOut,
           wipeOutTime, bicycle, terrain, obstacles, flagTimer, elapsed, frames,
           keyEvents, budget, last, probe >>

-----------------------------------------------------------------------------
(* Bounds of the model *)

MaxFrames == 4
MaxKeyEvents == 2

\* the budget of a run from init()
PlayBudget == [keys |-> MaxKeyEvents, frames |-> MaxFrames]

\* values clock.getDelta() returns to animate, in ms
DeltaTimes == {0, 500, 2500}
\* values the second clock.getDelta() of a frame (in checkCollisions) returns, in ms
EpsTimes == {0, 1}
\* values of Math.random(), in 1/1000 (Math.random() is in [0, 1))
RandomValues == {0, 999}

-----------------------------------------------------------------------------
(* Program constants *)

MAX_SPEED == 30000
SPEED_CAP == 6000
JUMP_FORCE == 500
GRAVITY == 20
BRAKE_FORCE == 200
MAX_SAFE_WHEELIE_ANGLE == 5236
CRITICAL_WHEELIE_ANGLE == 10472
WHEELIE_DIFFICULTY == 1500
TWIST_SPEED == 2000
PI == 31416
terrainSize == 1000000
gridSize == 200

-----------------------------------------------------------------------------
(* Arithmetic *)

Abs(a) == IF a < 0 THEN -a ELSE a
Min(a, b) == IF a < b THEN a ELSE b
Max(a, b) == IF a > b THEN a ELSE b

\* a / b rounded toward zero (b > 0)
DivT(a, b) == IF a >= 0 THEN a \div b ELSE -((-a) \div b)

\* Math.floor(a / b) for b > 0
Floor(a, b) == a \div b

RECURSIVE SqrtIter(_, _, _)
SqrtIter(n, lo, hi) ==
    IF lo >= hi THEN lo
    ELSE LET mid == (lo + hi + 1) \div 2
         IN  IF mid * mid <= n THEN SqrtIter(n, mid, hi) ELSE SqrtIter(n, lo, mid - 1)

\* Math.sqrt, rounded down (n < 2^31)
ISqrt(n) == SqrtIter(n, 0, 46340)

\* an angle brought into (-PI, PI]
RECURSIVE WrapPi(_)
WrapPi(a) == IF a > PI THEN WrapPi(a - 2 * PI)
             ELSE IF a <= -PI THEN WrapPi(a + 2 * PI) ELSE a

\* sine and cosine of an angle (1/10000 rad), in 1/1000, by the Taylor series
SinSmall(a) ==
    LET a2 == DivT(a * a, 10000)
        a3 == DivT(a2 * a, 10000)
        a5 == DivT(DivT(a3 * a, 10000) * a, 10000)
    IN  DivT(a - DivT(a3, 6) + DivT(a5, 120), 10)

CosSmall(a) ==
    LET a2 == DivT(a * a, 10000)
        a4 == DivT(DivT(a2 * a, 10000) * a, 10000)
        a6 == DivT(DivT(a4 * a, 10000) * a, 10000)
    IN  DivT(10000 - DivT(a2, 2) + DivT(a4, 24) - DivT(a6, 720), 10)

Sin(angle) ==
    LET a == WrapPi(angle)
    IN  IF a > PI \div 2 THEN SinSmall(PI - a)
        ELSE IF a < -(PI \div 2) THEN SinSmall(-PI - a)
        ELSE SinSmall(a)

Cos(angle) ==
    LET a == WrapPi(angle)
    IN  IF a > PI \div 2 THEN -CosSmall(PI - a)
        ELSE IF a < -(PI \div 2) THEN -CosSmall(-PI - a)
        ELSE CosSmall(a)

\* new THREE.Vector3(0, 0, -1).applyAxisAngle(new THREE.Vector3(0, 1, 0), yaw)
Forward(yaw) == [x |-> -Sin(yaw), z |-> -Cos(yaw)]

\* THREE.Vector2.distanceTo; beyond 30 units on an axis the larger axis distance
\* stands for it (every radius the program compares with is <= 20 units)
Distance(ax, az, bx, bz) ==
    LET dx == Abs(ax - bx)
        dz == Abs(az - bz)
    IN  IF dx > 30000 \/ dz > 30000 THEN Max(dx, dz) ELSE ISqrt(dx * dx + dz * dz)

\* THREE.Vector2.normalize: the zero vector stays zero (divideScalar(length() || 1))
Normalize(vx, vz) ==
    LET len == ISqrt(vx * vx + vz * vz)
    IN  IF len = 0 THEN [x |-> 0, z |-> 0]
        ELSE [x |-> DivT(vx * 1000, len), z |-> DivT(vz * 1000, len)]

-----------------------------------------------------------------------------
(* The heightfield: terrain.geometry.attributes.position.array *)

\* what arithmetic on a read past the end of the array (undefined) yields
NaN == 0 - 1000000000

vertexPerRow == gridSize + 1

TerrainKinds == {"plateau", "uphill", "downhill", "crest", "bumpy"}

\* trailCurves[0].getPoint(0): the first control point of the main trail loop
trailStart == [x |-> -300000, z |-> 0]

\* The height createTerrain stored at the vertex in column col (x = -500 + 5 col)
\* and row row (z = -500 + 5 row). The rows from z = -70 on are trail ground
\* (flattened to the trail height, below the forest band), the rows beyond lie
\* off the trail; "uphill" rises gently toward -z, the way the bicycle faces at
\* yaw 0, and "downhill" falls. "crest" falls toward -z down to z = -90, rises to
\* a ridge at z = -95 and drops behind it.
VertexHeight(t, col, row) ==
    CASE t = "plateau"  -> IF row >= 86 THEN 10000 ELSE 20000
      [] t = "uphill"   -> IF row >= 86 THEN 4000 + 600 * (100 - Min(row, 114)) ELSE 30000
      [] t = "downhill" -> IF row >= 86 THEN 9000 - 600 * (100 - Min(row, 114)) ELSE 0
      [] t = "crest"    -> IF row >= 82 THEN 30000 - 1200 * (100 - Min(row, 100))
                           ELSE IF row = 81 THEN 13400 ELSE 3400
      [] OTHER          -> ((col * 7 + row * 13) % 11) * 3000 - 12000

\* position.array[v * 3 + 1]: undefined past the (gridSize+1)^2 vertices
HeightSample(t, v) ==
    IF v >= 0 /\ v < vertexPerRow * vertexPerRow
    THEN VertexHeight(t, v % vertexPerRow, v \div vertexPerRow)
    ELSE NaN

\* h1 * (1 - f) + h2 * f, f in 1/1000; undefined operands give NaN
Lerp(h1, h2, f) ==
    IF h1 = NaN \/ h2 = NaN THEN NaN
    ELSE DivT(h1 * (1000 - f) + h2 * f, 1000)

\* the grid cell of getTerrainHeight: Math.floor(tx * gridSize)
CellIndex(c) == Floor((c + terrainSize \div 2) * gridSize, terrainSize)

\* OutsideTerrain with the whole terrainSize as the half extent
OutsideTerrainWide(x, z) ==
    \/ x < -terrainSize \/ x > terrainSize
    \/ z < -terrainSize \/ z > terrainSize

OutsideTerrain(x, z) ==
    \/ x < -(terrainSize \div 2) \/ x > terrainSize \div 2
    \/ z < -(terrainSize \div 2) \/ z > terrainSize \div 2

\* the four array vertices getTerrainHeight reads, << v1, v2, v3, v4 >>
CellVertices(x, z) ==
    LET ix == CellIndex(x)
        iz == CellIndex(z)
    IN  << iz * vertexPerRow + ix,       iz * vertexPerRow + (ix + 1),
           (iz + 1) * vertexPerRow + ix, (iz + 1) * vertexPerRow + (ix + 1) >>

\* the samples getTerrainHeight(x, z) asks for: row and column of the grid, and
\* the array vertex v the code computes for them
TerrainReads(x, z) ==
    IF OutsideTerrain(x, z) THEN {}
    ELSE LET ix == CellIndex(x)
             iz == CellIndex(z)
             v  == CellVertices(x, z)
         IN  { [row |-> iz,     col |-> ix,     v |-> v[1]],
               [row |-> iz,     col |-> ix + 1, v |-> v[2]],
               [row |-> iz + 1, col |-> ix,     v |-> v[3]],
               [row |-> iz + 1, col |-> ix + 1, v |-> v[4]] }

getTerrainHeight(t, x, z) ==
    IF OutsideTerrain(x, z) THEN 0
    ELSE LET cellWidth == terrainSize \div gridSize
             ix == CellIndex(x)
             iz == CellIndex(z)
             v  == CellVertices(x, z)
             h1 == HeightSample(t, v[1])
             h2 == HeightSample(t, v[2])
             h3 == HeightSample(t, v[3])
             h4 == HeightSample(t, v[4])
             fx == DivT((x - (-(terrainSize \div 2) + ix * cellWidth)) * 1000, cellWidth)
             fz == DivT((z - (-(terrainSize \div 2) + iz * cellWidth)) * 1000, cellWidth)
             h12 == Lerp(h1, h2, fx)
             h34 == Lerp(h3, h4, fx)
         IN  Lerp(h12, h34, fz)

-----------------------------------------------------------------------------
(* Obstacles and collision detection *)

\* an obstacle record: type, position, userData.collisionRadius, and for a log
\* userData.direction (a unit Vector2, in 1/1000) and userData.length
Obstacle(type, x, z, radius, dx, dy, length) ==
    [type |-> type, x |-> x, z |-> z, collisionRadius |-> radius,
     direction |-> [x |-> dx, y |-> dy], length |-> length]

Tree(x, z, radius) == Obstacle("tree", x, z, radius, 0, 0, 0)
Rock(x, z, radius) == Obstacle("rock", x, z, radius, 0, 0, 0)
Ramp(x, z, radius) == Obstacle("ramp", x, z, radius, 0, 0, 0)
Log(x, z, radius, dx, dy, length) == Obstacle("log", x, z, radius, dx, dy, length)

\* const bicycleRadius = 1.0
bicycleRadius == 1000

\* obstacle.userData.collisionRadius || 1.0
CollisionRadius(o) == IF o.collisionRadius = 0 THEN 1000 ELSE o.collisionRadius

LogStart(o) == [x |-> o.x - DivT(o.direction.x * (o.length \div 2), 1000),
                z |-> o.z - DivT(o.direction.y * (o.length \div 2), 1000)]
LogEnd(o)   == [x |-> o.x + DivT(o.direction.x * (o.length \div 2), 1000),
                z |-> o.z + DivT(o.direction.y * (o.length \div 2), 1000)]

\* distanceToLineSegment without the clamp to the end points: the distance to
\* the infinite line
distanceToLine(point, lineStart, lineEnd) ==
    LET lx == lineEnd.x - lineStart.x
        lz == lineEnd.z - lineStart.z
        px == point.x - lineStart.x
        pz == point.z - lineStart.z
        lineDirection == Normalize(lx, lz)
        projection == DivT(px * lineDirection.x + pz * lineDirection.z, 1000)
        qx == lineStart.x + DivT(lineDirection.x * projection, 1000)
        qz == lineStart.z + DivT(lineDirection.z * projection, 1000)
    IN  Distance(point.x, point.z, qx, qz)

distanceToLineSegment(point, lineStart, lineEnd) ==
    LET lx == lineEnd.x - lineStart.x
        lz == lineEnd.z - lineStart.z
        px == point.x - lineStart.x
        pz == point.z - lineStart.z
        lineLength == ISqrt(lx * lx + lz * lz)
        lineDirection == Normalize(lx, lz)
        projection == DivT(px * lineDirection.x + pz * lineDirection.z, 1000)
    IN  IF projection <= 0 THEN ISqrt(px * px + pz * pz)
        ELSE IF projection >= lineLength
             THEN Distance(point.x, point.z, lineEnd.x, lineEnd.z)
        ELSE LET qx == lineStart.x + DivT(lineDirection.x * projection, 1000)
                 qz == lineStart.z + DivT(lineDirection.z * projection, 1000)
             IN  Distance(point.x, point.z, qx, qz)

\* the quick reject of checkCollisions: if (distance > 20) continue
Culled(pos, o) == Distance(pos.x, pos.z, o.x, o.z) > 20000

\* the contact test of a log in checkCollisions
LogContact(pos, o) ==
    /\ ~Culled(pos, o)
    /\ distanceToLineSegment([x |-> pos.x, z |-> pos.z], LogStart(o), LogEnd(o))
           < bicycleRadius + CollisionRadius(o)

\* the contact test of a tree, a rock or (when the bicycle is not jumping) a ramp
CircleContact(pos, o) ==
    /\ ~Culled(pos, o)
    /\ Distance(pos.x, pos.z, o.x, o.z) < bicycleRadius + CollisionRadius(o)

\* whether the scan of checkCollisions stops at obstacle o
Contact(pos, jumping, o) ==
    CASE o.type = "log"  -> LogContact(pos, o)
      [] o.type = "ramp" -> ~jumping /\ CircleContact(pos, o)
      [] OTHER           -> CircleContact(pos, o)

\* a scan that goes through the whole list and keeps the last obstacle in contact
RECURSIVE LastContact(_, _, _, _)
LastContact(obs, pos, jumping, i) ==
    IF i > Len(obs) THEN 0
    ELSE LET later == LastContact(obs, pos, jumping, i + 1)
         IN  IF later # 0 THEN later
             ELSE IF Contact(pos, jumping, obs[i]) THEN i ELSE 0

\* the first obstacle of the list, from index i on, at which the scan stops; 0 if none
RECURSIVE FirstContact(_, _, _, _)
FirstContact(obs, pos, jumping, i) ==
    IF i > Len(obs) THEN 0
    ELSE IF Contact(pos, jumping, obs[i]) THEN i
    ELSE FirstContact(obs, pos, jumping, i + 1)

\* CollisionResponse with a tree slowing the bicycle as a rock does
CollisionResponseSoft(s, o, r) ==
    LET push == Normalize(s.bicycle.position.x - o.x, s.bicycle.position.z - o.z)
        pos  == s.bicycle.position
        rot  == s.bicycle.rotation
        Moved(k) == [pos EXCEPT !.x = pos.x + DivT(push.x * k, 10),
                                !.z = pos.z + DivT(push.z * k, 10)]
        Bounce(t, f) == IF t.isJumping THEN t
                        ELSE [t EXCEPT !.isJumping = TRUE,
                                       !.jumpVelocity = DivT(JUMP_FORCE * f, 10)]
    IN  CASE o.type = "tree" ->
               Bounce([s EXCEPT !.gameSpeed = DivT(s.gameSpeed, 10),
                                !.bicycle.position = Moved(30),
                                !.bicycle.rotation.z = rot.z + (r - 500) * 5], 8)
          [] o.type = "rock" ->
               Bounce([s EXCEPT !.gameSpeed = DivT(s.gameSpeed, 10),
                                !.bicycle.position = Moved(25),
                                !.bicycle.rotation.z = rot.z + (r - 500) * 3], 6)
          [] o.type = "log" ->
               Bounce([s EXCEPT !.gameSpeed = DivT(s.gameSpeed, 5),
                                !.bicycle.position = Moved(15),
                                !.bicycle.rotation.x = rot.x + 2000], 7)
          [] OTHER -> s

\* CollisionResponse that bounces a bicycle in the air as well
CollisionResponseRebounce(s, o, r) ==
    LET push == Normalize(s.bicycle.position.x - o.x, s.bicycle.position.z - o.z)
        pos  == s.bicycle.position
        rot  == s.bicycle.rotation
        Moved(k) == [pos EXCEPT !.x = pos.x + DivT(push.x * k, 10),
                                !.z = pos.z + DivT(push.z * k, 10)]
        Bounce(t, f) == [t EXCEPT !.isJumping = TRUE,
                                  !.jumpVelocity = DivT(JUMP_FORCE * f, 10)]
    IN  CASE o.type = "tree" ->
               Bounce([s EXCEPT !.gameSpeed = 0,
                                !.bicycle.position = Moved(30),
                                !.bicycle.rotation.z = rot.z + (r - 500) * 5], 8)
          [] o.type = "rock" ->
               Bounce([s EXCEPT !.gameSpeed = DivT(s.gameSpeed, 10),
                                !.bicycle.position = Moved(25),
                                !.bicycle.rotation.z = rot.z + (r - 500) * 3], 6)
          [] o.type = "log" ->
               Bounce([s EXCEPT !.gameSpeed = DivT(s.gameSpeed, 5),
                                !.bicycle.position = Moved(15),
                                !.bicycle.rotation.x = rot.x + 2000], 7)
          [] OTHER -> s

\* the type-specific response of handleCollision (the switch on userData.type);
\* r is the Math.random() of the roll perturbation
CollisionResponse(s, o, r) ==
    LET push == Normalize(s.bicycle.position.x - o.x, s.bicycle.position.z - o.z)
        pos  == s.bicycle.position
        rot  == s.bicycle.rotation
        Moved(k) == [pos EXCEPT !.x = pos.x + DivT(push.x * k, 10),
                                !.z = pos.z + DivT(push.z * k, 10)]
        Bounce(t, f) == IF t.isJumping THEN t
                        ELSE [t EXCEPT !.isJumping = TRUE,
                                       !.jumpVelocity = DivT(JUMP_FORCE * f, 10)]
    IN  CASE o.type = "tree" ->
               Bounce([s EXCEPT !.gameSpeed = 0,
                                !.bicycle.position = Moved(30),
                                !.bicycle.rotation.z = rot.z + (r - 500) * 5], 8)
          [] o.type = "rock" ->
               Bounce([s EXCEPT !.gameSpeed = DivT(s.gameSpeed, 10),
                                !.bicycle.position = Moved(25),
                                !.bicycle.rotation.z = rot.z + (r - 500) * 3], 6)
          [] o.type = "log" ->
               Bounce([s EXCEPT !.gameSpeed = DivT(s.gameSpeed, 5),
                                !.bicycle.position = Moved(15),
                                !.bicycle.rotation.x = rot.x + 2000], 7)
          [] OTHER -> s

\* handleCollision that starts no cooldown
handleCollisionNoCooldown(s, o, r) ==
    IF s.collisionOccurred THEN s
    ELSE LET t == [s EXCEPT !.collisionOccurred = TRUE, !.collisionCooldown = 0]
         IN  [CollisionResponse(t, o, r) EXCEPT !.flagTimer = 500, !.responded = TRUE]

\* handleCollision without the setTimeout that clears the flag
handleCollisionNoReset(s, o, r) ==
    IF s.collisionOccurred THEN s
    ELSE LET t == [s EXCEPT !.collisionOccurred = TRUE, !.collisionCooldown = 1500]
         IN  [CollisionResponse(t, o, r) EXCEPT !.responded = TRUE]

\* handleCollision(obstacle): the reentrancy guard, the cooldown, the response and
\* the setTimeout(..., 500) that clears the flag
handleCollision(s, o, r) ==
    IF s.collisionOccurred THEN s
    ELSE LET t == [s EXCEPT !.collisionOccurred = TRUE, !.collisionCooldown = 1500]
         IN  [CollisionResponse(t, o, r) EXCEPT !.flagTimer = 500, !.responded = TRUE]

\* checkCollisions with a ramp that gets the response of the other obstacles
checkCollisionsRampCollides(s, obs, eps, r) ==
    IF s.collisionCooldown > 0
    THEN [s EXCEPT !.collisionCooldown = s.collisionCooldown - eps, !.hit = FALSE]
    ELSE LET i == FirstContact(obs, s.bicycle.position, s.isJumping, 1)
         IN  IF i = 0 THEN [s EXCEPT !.hit = FALSE]
             ELSE [handleCollision(s, obs[i], r) EXCEPT !.hit = TRUE, !.contact = i]

\* checkCollisions(): eps is what clock.getDelta() returns when the cooldown is
\* active; the result is the state with .hit the value returned
checkCollisions(s, obs, eps, r) ==
    IF s.collisionCooldown > 0
    THEN [s EXCEPT !.collisionCooldown = s.collisionCooldown - eps, !.hit = FALSE]
    ELSE LET i == FirstContact(obs, s.bicycle.position, s.isJumping, 1)
         IN  IF i = 0 THEN [s EXCEPT !.hit = FALSE]
             ELSE IF obs[i].type = "ramp"
                  THEN [s EXCEPT !.gameSpeed = DivT(s.gameSpeed, 2), !.hit = FALSE,
                                 !.contact = i]
             ELSE [handleCollision(s, obs[i], r) EXCEPT !.hit = TRUE, !.contact = i]

-----------------------------------------------------------------------------
(* The physics step *)

\* Math.atan2(y, x) for a vector (x, y) in 1/1000, by bisection on the angle
RECURSIVE AtanIter(_, _, _, _)
AtanIter(y, x, lo, hi) ==
    IF hi - lo <= 1 THEN lo
    ELSE LET mid == (lo + hi) \div 2
         IN  IF Sin(mid) * x - Cos(mid) * y <= 0
             THEN AtanIter(y, x, mid, hi) ELSE AtanIter(y, x, lo, mid)

Atan2(y, x) ==
    LET a == AtanIter(Abs(y), Abs(x), 0, PI \div 2 + 1)
    IN  IF x >= 0 THEN (IF y >= 0 THEN a ELSE -a)
        ELSE (IF y >= 0 THEN PI - a ELSE a - PI)

\* a - b of two heights; NaN if either is
HeightDiff(a, b) == IF a = NaN \/ b = NaN THEN NaN ELSE a - b

\* Slope with the steepness not limited to 3 and 4 units of height difference
SlopeUncapped(s, t) ==
    LET pos == s.bicycle.position
        moveDirection == Forward(s.bicycle.rotation.y)
        currentHeight == getTerrainHeight(t, pos.x, pos.z)
        aheadHeight == getTerrainHeight(t, pos.x + DivT(moveDirection.x * 3, 2),
                                           pos.z + DivT(moveDirection.z * 3, 2))
        farAheadHeight == getTerrainHeight(t, pos.x + moveDirection.x * 3,
                                              pos.z + moveDirection.z * 3)
        heightDifference == HeightDiff(aheadHeight, currentHeight)
        farHeightDifference == HeightDiff(farAheadHeight, aheadHeight)
        isUphillSlope == heightDifference # NaN /\ heightDifference > 0
        isDownhillSlope == heightDifference # NaN /\ heightDifference < 0
        steepness == IF isUphillSlope THEN DivT(heightDifference, 3)
                     ELSE DivT(Abs(heightDifference), 4)
        slopeFactor == IF isUphillSlope
                       THEN DivT(DivT(steepness * steepness, 1000) * steepness, 1000)
                       ELSE IF isDownhillSlope THEN steepness ELSE 0
    IN  [moveDirection |-> moveDirection,
         heightDifference |-> heightDifference,
         farHeightDifference |-> farHeightDifference,
         isUphillSlope |-> isUphillSlope,
         isDownhillSlope |-> isDownhillSlope,
         slopeFactor |-> slopeFactor,
         isHillCrest |-> /\ isUphillSlope
                         /\ farHeightDifference # NaN /\ farHeightDifference < -500,
         slopeEffect |-> IF isUphillSlope THEN 1000 - DivT(slopeFactor * 95, 100)
                         ELSE IF isDownhillSlope THEN 1000 + DivT(slopeFactor * 4, 10)
                         ELSE 1000]

\* the slope signals updateBicycle derives from three height samples; a
\* comparison with NaN is false
Slope(s, t) ==
    LET pos == s.bicycle.position
        moveDirection == Forward(s.bicycle.rotation.y)
        currentHeight == getTerrainHeight(t, pos.x, pos.z)
        aheadHeight == getTerrainHeight(t, pos.x + DivT(moveDirection.x * 3, 2),
                                           pos.z + DivT(moveDirection.z * 3, 2))
        farAheadHeight == getTerrainHeight(t, pos.x + moveDirection.x * 3,
                                              pos.z + moveDirection.z * 3)
        heightDifference == HeightDiff(aheadHeight, currentHeight)
        farHeightDifference == HeightDiff(farAheadHeight, aheadHeight)
        isUphillSlope == heightDifference # NaN /\ heightDifference > 0
        isDownhillSlope == heightDifference # NaN /\ heightDifference < 0
        steepness == IF isUphillSlope THEN DivT(Min(heightDifference, 3000), 3)
                     ELSE DivT(Min(Abs(heightDifference), 4000), 4)
        slopeFactor == IF isUphillSlope
                       THEN DivT(DivT(steepness * steepness, 1000) * steepness, 1000)
                       ELSE IF isDownhillSlope THEN steepness ELSE 0
    IN  [moveDirection |-> moveDirection,
         heightDifference |-> heightDifference,
         farHeightDifference |-> farHeightDifference,
         isUphillSlope |-> isUphillSlope,
         isDownhillSlope |-> isDownhillSlope,
         slopeFactor |-> slopeFactor,
         isHillCrest |-> /\ isUphillSlope
                         /\ farHeightDifference # NaN /\ farHeightDifference < -500,
         slopeEffect |-> IF isUphillSlope THEN 1000 - DivT(slopeFactor * 95, 100)
                         ELSE IF isDownhillSlope THEN 1000 + DivT(slopeFactor * 4, 10)
                         ELSE 1000]

\* keys.w: gameSpeed = Math.min(gameSpeed + deltaTime * accelerationFactor, targetSpeed)
Accelerate(speed, dt, slopeEffect) ==
    LET targetSpeed == DivT(SPEED_CAP * slopeEffect, 1000)
    IN  Min(speed + DivT(dt * slopeEffect * 8, 10000), targetSpeed)

\* Brake with the same force on every slope
BrakeAnySlope(speed, dt, sl) ==
    Max(speed - DivT(dt * BRAKE_FORCE, 100), 0)

\* keys.s: gameSpeed = Math.max(gameSpeed - deltaTime * brakingForce, 0)
Brake(speed, dt, sl) ==
    LET brakingForce == IF sl.isDownhillSlope
                        THEN DivT(BRAKE_FORCE * (1000 - sl.slopeFactor \div 2), 1000)
                        ELSE BRAKE_FORCE
    IN  Max(speed - DivT(dt * brakingForce, 100), 0)

\* Friction without the floor at zero
FrictionNoFloor(speed, dt, sl) ==
    LET frictionFactor == IF sl.isDownhillSlope THEN 50 ELSE 100
    IN  speed - DivT(dt * frictionFactor, 100)

\* no key: gameSpeed = Math.max(gameSpeed - deltaTime * frictionFactor, 0)
Friction(speed, dt, sl) ==
    LET frictionFactor == IF sl.isDownhillSlope THEN 50 ELSE 100
    IN  Max(speed - DivT(dt * frictionFactor, 100), 0)

UpdateSpeed(s, k, dt, sl) ==
    [s EXCEPT !.gameSpeed = IF k.w THEN Accelerate(s.gameSpeed, dt, sl.slopeEffect)
                            ELSE IF k.s THEN Brake(s.gameSpeed, dt, sl)
                            ELSE Friction(s.gameSpeed, dt, sl)]

\* const MAX_STEER = 0.12
MAX_STEER == 1200

\* UpdateSteering without the limits
UpdateSteeringUnlimited(s, k, dt) ==
    [s EXCEPT !.steerAngle = IF k.left THEN s.steerAngle + dt * 3
                             ELSE IF k.right THEN s.steerAngle - dt * 3
                             ELSE DivT(s.steerAngle * 85, 100)]

\* the steering block of updateBicycle
UpdateSteering(s, k, dt) ==
    [s EXCEPT !.steerAngle = IF k.left THEN Min(s.steerAngle + dt * 3, MAX_STEER)
                             ELSE IF k.right THEN Max(s.steerAngle - dt * 3, -MAX_STEER)
                             ELSE DivT(s.steerAngle * 85, 100)]

\* const MAX_LEAN = 0.3
MAX_LEAN == 3000

UpdateLean(s, k, dt) ==
    [s EXCEPT !.leanAngle = IF k.up THEN Min(s.leanAngle + dt * 2, MAX_LEAN)
                            ELSE IF k.down /\ ~s.isWheelieMode
                                 THEN Max(s.leanAngle - dt * 2, -MAX_LEAN)
                            ELSE IF ~s.isWheelieMode THEN DivT(s.leanAngle * 9, 10)
                            ELSE s.leanAngle]

\* startWipeOut(reason)
startWipeOut(s) == [s EXCEPT !.isWipingOut = TRUE, !.wipeOutTime = 0, !.wipeStarted = TRUE]

\* UpdateWheelie with the wipeout threshold at a right angle
UpdateWheelieLate(s, dt, sl, r) ==
    IF s.isWheelieMode
    THEN LET speedFactor == DivT(Min(DivT(s.gameSpeed * 1000, MAX_SPEED), 1000)
                                     * WHEELIE_DIFFICULTY, 1000)
             slopeFactor == IF sl.isUphillSlope THEN 500
                            ELSE IF sl.isDownhillSlope THEN 1500 ELSE 1000
             balanceDifficulty == DivT(speedFactor * slopeFactor, 1000)
             randomBalance == DivT((r - 500) * balanceDifficulty, 5000)
             t == [s EXCEPT !.wheelieAngle = s.wheelieAngle + dt * 8 + randomBalance]
         IN  IF t.wheelieAngle > PI \div 2 THEN startWipeOut(t) ELSE t
    ELSE LET recoveryRate == IF s.wheelieAngle > MAX_SAFE_WHEELIE_ANGLE THEN 6 ELSE 12
         IN  [s EXCEPT !.wheelieAngle = Max(s.wheelieAngle - dt * recoveryRate, 0)]

\* the wheelie block of updateBicycle; r is the Math.random() of randomBalance.
\* .wipeStarted tells that the block called startWipeOut and updateBicycle returned
UpdateWheelie(s, dt, sl, r) ==
    IF s.isWheelieMode
    THEN LET speedFactor == DivT(Min(DivT(s.gameSpeed * 1000, MAX_SPEED), 1000)
                                     * WHEELIE_DIFFICULTY, 1000)
             slopeFactor == IF sl.isUphillSlope THEN 500
                            ELSE IF sl.isDownhillSlope THEN 1500 ELSE 1000
             balanceDifficulty == DivT(speedFactor * slopeFactor, 1000)
             randomBalance == DivT((r - 500) * balanceDifficulty, 5000)
             t == [s EXCEPT !.wheelieAngle = s.wheelieAngle + dt * 8 + randomBalance]
         IN  IF t.wheelieAngle > CRITICAL_WHEELIE_ANGLE THEN startWipeOut(t) ELSE t
    ELSE LET recoveryRate == IF s.wheelieAngle > MAX_SAFE_WHEELIE_ANGLE THEN 6 ELSE 12
         IN  [s EXCEPT !.wheelieAngle = Max(s.wheelieAngle - dt * recoveryRate, 0)]

\* bicycle.position.add(direction.multiplyScalar(gameSpeed * deltaTime * factor)),
\* factor 60 on the ground and in the air, 30 in a wipeout
Translate(pos, dir, speed, dt, factor) ==
    LET dist == DivT(speed * dt * (factor \div 10), 1000)
    IN  [pos EXCEPT !.x = pos.x + DivT(dir.x * dist, 1000),
                    !.z = pos.z + DivT(dir.z * dist, 1000)]

\* the Euler angles (order XYZ) of the quaternion yaw * roll
TwistRotation(yaw, twist) ==
    IF Abs(WrapPi(yaw)) <= PI \div 2
    THEN [x |-> 0, y |-> WrapPi(yaw), z |-> WrapPi(twist)]
    ELSE [x |-> PI, y |-> WrapPi(PI - yaw), z |-> WrapPi(twist + PI)]

\* JumpStep without gravity
JumpStepNoGravity(s, k, t, dt, sl) ==
    LET s1 == [s EXCEPT !.bicycle.position.y = s.bicycle.position.y + s.jumpVelocity]
        od == IF s1.twistAngle = 0 THEN sl.moveDirection ELSE s1.originalDirection
        s2 == IF k.e
              THEN [s1 EXCEPT !.originalDirection = od,
                              !.twistAngle = s1.twistAngle + TWIST_SPEED,
                              !.bicycle.rotation =
                                  TwistRotation(s1.bicycle.rotation.y, s1.twistAngle + TWIST_SPEED),
                              !.bicycle.position =
                                  Translate(s1.bicycle.position, od, s1.gameSpeed, dt, 60)]
              ELSE [s1 EXCEPT !.bicycle.position =
                                  Translate(s1.bicycle.position, sl.moveDirection,
                                            s1.gameSpeed, dt, 60)]
        terrainHeight == getTerrainHeight(t, s2.bicycle.position.x, s2.bicycle.position.z)
        d == s2.originalDirection
    IN  IF s2.bicycle.position.y <= terrainHeight + 600 /\ s2.jumpVelocity < 0
        THEN LET s3 == [s2 EXCEPT !.isJumping = FALSE,
                                  !.twistAngle = 0,
                                  !.bicycle.position.y = terrainHeight + 600,
                                  !.landed = TRUE]
             IN  IF d.x # 0 \/ d.z # 0
                 THEN [s3 EXCEPT !.bicycle.rotation =
                                     [x |-> 0, y |-> Atan2(-d.x, -d.z), z |-> s3.leanAngle],
                                 !.originalDirection = [x |-> 0, z |-> 0]]
                 ELSE s3
        ELSE s2

\* JumpStep with a landing that keeps the twist angle
JumpStepKeepsTwist(s, k, t, dt, sl) ==
    LET s1 == [s EXCEPT !.jumpVelocity = s.jumpVelocity - GRAVITY,
                        !.bicycle.position.y = s.bicycle.position.y + s.jumpVelocity - GRAVITY]
        od == IF s1.twistAngle = 0 THEN sl.moveDirection ELSE s1.originalDirection
        s2 == IF k.e
              THEN [s1 EXCEPT !.originalDirection = od,
                              !.twistAngle = s1.twistAngle + TWIST_SPEED,
                              !.bicycle.rotation =
                                  TwistRotation(s1.bicycle.rotation.y, s1.twistAngle + TWIST_SPEED),
                              !.bicycle.position =
                                  Translate(s1.bicycle.position, od, s1.gameSpeed, dt, 60)]
              ELSE [s1 EXCEPT !.bicycle.position =
                                  Translate(s1.bicycle.position, sl.moveDirection,
                                            s1.gameSpeed, dt, 60)]
        terrainHeight == getTerrainHeight(t, s2.bicycle.position.x, s2.bicycle.position.z)
        d == s2.originalDirection
    IN  IF s2.bicycle.position.y <= terrainHeight + 600 /\ s2.jumpVelocity < 0
        THEN LET s3 == [s2 EXCEPT !.isJumping = FALSE,
                                  !.bicycle.position.y = terrainHeight + 600,
                                  !.landed = TRUE]
             IN  IF d.x # 0 \/ d.z # 0
                 THEN [s3 EXCEPT !.bicycle.rotation =
                                     [x |-> 0, y |-> Atan2(-d.x, -d.z), z |-> s3.leanAngle],
                                 !.originalDirection = [x |-> 0, z |-> 0]]
                 ELSE s3
        ELSE s2

\* if (isJumping) { ... }: gravity, twist, movement and the landing check
JumpStep(s, k, t, dt, sl) ==
    LET s1 == [s EXCEPT !.jumpVelocity = s.jumpVelocity - GRAVITY,
                        !.bicycle.position.y = s.bicycle.position.y + s.jumpVelocity - GRAVITY]
        od == IF s1.twistAngle = 0 THEN sl.moveDirection ELSE s1.originalDirection
        s2 == IF k.e
              THEN [s1 EXCEPT !.originalDirection = od,
                              !.twistAngle = s1.twistAngle + TWIST_SPEED,
                              !.bicycle.rotation =
                                  TwistRotation(s1.bicycle.rotation.y, s1.twistAngle + TWIST_SPEED),
                              !.bicycle.position =
                                  Translate(s1.bicycle.position, od, s1.gameSpeed, dt, 60)]
              ELSE [s1 EXCEPT !.bicycle.position =
                                  Translate(s1.bicycle.position, sl.moveDirection,
                                            s1.gameSpeed, dt, 60)]
        terrainHeight == getTerrainHeight(t, s2.bicycle.position.x, s2.bicycle.position.z)
        d == s2.originalDirection
    IN  IF s2.bicycle.position.y <= terrainHeight + 600 /\ s2.jumpVelocity < 0
        THEN LET s3 == [s2 EXCEPT !.isJumping = FALSE,
                                  !.bicycle.position.y = terrainHeight + 600,
                                  !.twistAngle = 0,
                                  !.landed = TRUE]
             IN  IF d.x # 0 \/ d.z # 0
                 THEN [s3 EXCEPT !.bicycle.rotation =
                                     [x |-> 0, y |-> Atan2(-d.x, -d.z), z |-> s3.leanAngle],
                                 !.originalDirection = [x |-> 0, z |-> 0]]
                 ELSE s3
        ELSE s2

\* GroundStep with the yaw advanced by the steering angle alone
GroundStepSteersAtRest(s, t, dt, sl) ==
    IF sl.isHillCrest /\ s.gameSpeed > 3000
    THEN LET steep == Max(500, Min(2000, Abs(sl.farHeightDifference) * 2))
         IN  [s EXCEPT !.isJumping = TRUE,
                       !.jumpVelocity = DivT(DivT(JUMP_FORCE * s.gameSpeed, MAX_SPEED) * steep, 1000),
                       !.autoJumped = TRUE]
    ELSE LET yaw == s.bicycle.rotation.y + DivT(s.steerAngle, 10)
             pos == s.bicycle.position
             terrainHeight == getTerrainHeight(t, pos.x, pos.z)
         IN  [s EXCEPT !.bicycle.rotation = [x |-> s.wheelieAngle, y |-> yaw, z |-> s.leanAngle],
                       !.bicycle.position =
                           Translate([pos EXCEPT !.y = terrainHeight + 600],
                                     Forward(yaw), s.gameSpeed, dt, 60)]

\* GroundStep with a launch that does not limit the steepness factor
GroundStepUnclamped(s, t, dt, sl) ==
    IF sl.isHillCrest /\ s.gameSpeed > 3000
    THEN LET steep == Abs(sl.farHeightDifference) * 2
         IN  [s EXCEPT !.isJumping = TRUE,
                       !.jumpVelocity = DivT(DivT(JUMP_FORCE * s.gameSpeed, MAX_SPEED) * steep, 1000),
                       !.autoJumped = TRUE]
    ELSE LET yaw == s.bicycle.rotation.y + DivT(s.steerAngle * s.gameSpeed, 10000)
             pos == s.bicycle.position
             terrainHeight == getTerrainHeight(t, pos.x, pos.z)
         IN  [s EXCEPT !.bicycle.rotation = [x |-> s.wheelieAngle, y |-> yaw, z |-> s.leanAngle],
                       !.bicycle.position =
                           Translate([pos EXCEPT !.y = terrainHeight + 600],
                                     Forward(yaw), s.gameSpeed, dt, 60)]

\* else { ... }: the hill-crest launch, or steering, terrain following and movement
GroundStep(s, t, dt, sl) ==
    IF sl.isHillCrest /\ s.gameSpeed > 3000
    THEN LET steep == Max(500, Min(2000, Abs(sl.farHeightDifference) * 2))
         IN  [s EXCEPT !.isJumping = TRUE,
                       !.jumpVelocity = DivT(DivT(JUMP_FORCE * s.gameSpeed, MAX_SPEED) * steep, 1000),
                       !.autoJumped = TRUE]
    ELSE LET yaw == s.bicycle.rotation.y + DivT(s.steerAngle * s.gameSpeed, 10000)
             pos == s.bicycle.position
             terrainHeight == getTerrainHeight(t, pos.x, pos.z)
         IN  [s EXCEPT !.bicycle.rotation = [x |-> s.wheelieAngle, y |-> yaw, z |-> s.leanAngle],
                       !.bicycle.position =
                           Translate([pos EXCEPT !.y = terrainHeight + 600],
                                     Forward(yaw), s.gameSpeed, dt, 60)]

-----------------------------------------------------------------------------
(* Respawn, the wipeout timeline and the objective *)

\* window.spawnPosition: trailCurves[0].getPoint(0), raised by the wheel radius
spawnPosition(t) ==
    [x |-> trailStart.x, y |-> getTerrainHeight(t, trailStart.x, trailStart.z) + 600,
     z |-> trailStart.z]

\* respawnBicycle without the reset of gameSpeed
respawnBicycleRolling(s, t) ==
    [s EXCEPT !.bicycle = [position |-> spawnPosition(t),
                           rotation |-> [x |-> 0, y |-> 0, z |-> 0]],
              !.isJumping = FALSE,
              !.jumpVelocity = 0,
              !.isWheelieMode = FALSE,
              !.wheelieAngle = 0,
              !.steerAngle = 0,
              !.leanAngle = 0,
              !.playerScore = 0]

\* respawnBicycle(): window.spawnPosition is set by init(), so the body runs
respawnBicycle(s, t) ==
    [s EXCEPT !.bicycle = [position |-> spawnPosition(t),
                           rotation |-> [x |-> 0, y |-> 0, z |-> 0]],
              !.gameSpeed = 0,
              !.isJumping = FALSE,
              !.jumpVelocity = 0,
              !.isWheelieMode = FALSE,
              !.wheelieAngle = 0,
              !.steerAngle = 0,
              !.leanAngle = 0,
              !.playerScore = 0]

\* updateWipeOutAnimation with a tumble phase that lasts until 3.0 s
updateWipeOutAnimationLong(s, t, dt, r) ==
    LET time == s.wipeOutTime + dt
        s1 == [s EXCEPT !.wipeOutTime = time]
        rot == s.bicycle.rotation
        pos == s.bicycle.position
    IN  IF time < 1000
        THEN LET angle == Min(s.wheelieAngle + dt * 30, DivT(PI * 9, 10))
                 speed == Max(s.gameSpeed - dt * 20, 0)
             IN  [s1 EXCEPT !.wheelieAngle = angle,
                            !.gameSpeed = speed,
                            !.bicycle.rotation.x = angle,
                            !.bicycle.position = Translate(pos, Forward(rot.y), speed, dt, 30)]
        ELSE IF time < 3000
        THEN [s1 EXCEPT !.bicycle.rotation.x = rot.x + dt * 50,
                        !.bicycle.rotation.z = rot.z + DivT(dt * (r - 500), 50),
                        !.bicycle.position.y = IF time < 1300 THEN pos.y + dt * 5
                                               ELSE pos.y - dt * 10]
        ELSE [respawnBicycle([s1 EXCEPT !.isWipingOut = FALSE, !.wipeOutTime = 0], t)
                  EXCEPT !.wipeEnded = TRUE]

\* updateWipeOutAnimation(deltaTime); r is the Math.random() of the tumble roll
updateWipeOutAnimation(s, t, dt, r) ==
    LET time == s.wipeOutTime + dt
        s1 == [s EXCEPT !.wipeOutTime = time]
        rot == s.bicycle.rotation
        pos == s.bicycle.position
    IN  IF time < 1000
        THEN LET angle == Min(s.wheelieAngle + dt * 30, DivT(PI * 9, 10))
                 speed == Max(s.gameSpeed - dt * 20, 0)
             IN  [s1 EXCEPT !.wheelieAngle = angle,
                            !.gameSpeed = speed,
                            !.bicycle.rotation.x = angle,
                            !.bicycle.position = Translate(pos, Forward(rot.y), speed, dt, 30)]
        ELSE IF time < 2000
        THEN [s1 EXCEPT !.bicycle.rotation.x = rot.x + dt * 50,
                        !.bicycle.rotation.z = rot.z + DivT(dt * (r - 500), 50),
                        !.bicycle.position.y = IF time < 1300 THEN pos.y + dt * 5
                                               ELSE pos.y - dt * 10]
        ELSE [respawnBicycle([s1 EXCEPT !.isWipingOut = FALSE, !.wipeOutTime = 0], t)
                  EXCEPT !.wipeEnded = TRUE]

\* the value of a one-element set; binds an intermediate result of a handler
\* once, as a local const does
The(S) == CHOOSE x \in S : TRUE

\* the tail of updateBicycle: the return after startWipeOut, the jump branch or
\* the ground branch
MoveStep(s, k, t, dt, sl) ==
    IF s.wipeStarted THEN s
    ELSE IF s.isJumping THEN JumpStep(s, k, t, dt, sl)
    ELSE GroundStep(s, t, dt, sl)

\* updateBicycle(deltaTime): c is the state after checkCollisions(), sl the slope
\* signals, w the state after the speed, steering, lean and wheelie blocks
updateBicycle(s, k, started, t, obs, dt, eps, r1, r2) ==
    IF s.isWipingOut THEN updateWipeOutAnimation(s, t, dt, r2)
    ELSE IF ~started THEN s
    ELSE The({ The({ The({ MoveStep(w, k, t, dt, sl) :
                 w \in { UpdateWheelie(
                             UpdateLean(
                                 UpdateSteering(UpdateSpeed(c, k, dt, sl), k, dt),
                                 k, dt),
                             dt, sl, r2) } }) :
               sl \in { Slope(c, t) } }) :
             c \in { [checkCollisions(s, obs, eps, r1) EXCEPT !.checked = TRUE] } })

\* objectiveBeam.userData.collisionRadius
pickupRadius == 5000

\* the positions the random draws of createObjectiveBeam are taken from
\* (x and z in [-boundary, boundary], boundary = terrainSize / 2 - 50)
PlacementDraws == { [x |-> -298000, z |-> 0], [x |-> -300000, z |-> -31000],
                    [x |-> 200000, z |-> 150000] }

\* ValidPlacement without the obstacle distances
ValidPlacementAnywhere(t, obs, wantMountainPeak, p) ==
    LET height == getTerrainHeight(t, p.x, p.z)
    IN  /\ height > -10000
        /\ IF wantMountainPeak
           THEN /\ height > getTerrainHeight(t, p.x + 5000, p.z)
                /\ height > getTerrainHeight(t, p.x - 5000, p.z)
                /\ height > getTerrainHeight(t, p.x, p.z + 5000)
                /\ height > getTerrainHeight(t, p.x, p.z - 5000)
                /\ height > 20000
           ELSE TRUE

\* the acceptance test of one placement attempt
ValidPlacement(t, obs, wantMountainPeak, p) ==
    LET height == getTerrainHeight(t, p.x, p.z)
    IN  /\ height > -10000
        /\ IF wantMountainPeak
           THEN /\ height > getTerrainHeight(t, p.x + 5000, p.z)
                /\ height > getTerrainHeight(t, p.x - 5000, p.z)
                /\ height > getTerrainHeight(t, p.x, p.z + 5000)
                /\ height > getTerrainHeight(t, p.x, p.z - 5000)
                /\ height > 20000
           ELSE \A i \in 1..Len(obs) : Distance(p.x, p.z, obs[i].x, obs[i].z) >= 10000

\* a placement: the position and whether it is the fallback draw
Placement(p, fallback) == [x |-> p.x, z |-> p.z, fallback |-> fallback]

\* the placements createObjectiveBeam can end with: an accepted attempt, or,
\* when maxAttempts attempts can all fail, the unchecked fallback draw
createObjectiveBeam(t, obs) ==
    UNION { {Placement(p, FALSE) : p \in {q \in PlacementDraws :
                                             ValidPlacement(t, obs, peak, q)}}
            \cup (IF \E q \in PlacementDraws : ~ValidPlacement(t, obs, peak, q)
                  THEN {Placement(p, TRUE) : p \in PlacementDraws} ELSE {})
            : peak \in BOOLEAN }

\* createObjectiveBeam adding the new beam without removing the old one
ReplaceBeamKeepOld(scene, old, new) == scene (+) SetToBag({new})

\* createObjectiveBeam on the scene: scene.remove(objectiveBeam) of the old
\* group, scene.add(objectiveBeam) of the new one
ReplaceBeam(scene, old, new) == (scene (-) SetToBag({old})) (+) SetToBag({new})

\* the test of checkObjectiveCollision
WithinPickup(s) ==
    Distance(s.bicycle.position.x, s.bicycle.position.z,
             s.objectiveBeam.x, s.objectiveBeam.z) < pickupRadius

\* collectObjective taking a point away
collectObjectivePenalty(s, p) ==
    [s EXCEPT !.playerScore = s.playerScore - 1,
              !.objectiveBeam = [x |-> p.x, z |-> p.z],
              !.sceneBeams = ReplaceBeam(s.sceneBeams, s.objectiveBeam,
                                         [x |-> p.x, z |-> p.z]),
              !.picked = TRUE,
              !.fallback = p.fallback]

\* collectObjective counting the pickup twice
collectObjectiveTwice(s, p) ==
    [s EXCEPT !.playerScore = s.playerScore + 2,
              !.objectiveBeam = [x |-> p.x, z |-> p.z],
              !.sceneBeams = ReplaceBeam(s.sceneBeams, s.objectiveBeam,
                                         [x |-> p.x, z |-> p.z]),
              !.picked = TRUE,
              !.fallback = p.fallback]

\* collectObjective(): playerScore++ and a new beam at p
collectObjective(s, p) ==
    [s EXCEPT !.playerScore = s.playerScore + 1,
              !.objectiveBeam = [x |-> p.x, z |-> p.z],
              !.sceneBeams = ReplaceBeam(s.sceneBeams, s.objectiveBeam,
                                         [x |-> p.x, z |-> p.z]),
              !.picked = TRUE,
              !.fallback = p.fallback]

-----------------------------------------------------------------------------
(* The worlds init() can build, and the state after init() *)

\* a heightfield and the obstacles on the way the bicycle faces at the trail
\* start (createObstacles puts trees where the height is in (15, 25), rocks
\* above 25, ramps in (5, 30) and logs in (-5, 30), and appends trees, rocks,
\* ramps, logs in that order)
Worlds ==
    { [terrain |-> "plateau",
       obstacles |-> << Tree(trailStart.x, -91500, 1000) >>],
      [terrain |-> "uphill",
       obstacles |-> << Rock(trailStart.x, -91500, 1800) >>],
      [terrain |-> "downhill",
       obstacles |-> << Ramp(trailStart.x, -1500, 1400),
                        Log(trailStart.x, -32000, 600, 1000, 0, 6000) >>],
      [terrain |-> "crest", obstacles |-> << >>] }

NoKeys == [w |-> FALSE, left |-> FALSE, right |-> FALSE, up |-> FALSE,
           down |-> FALSE, space |-> FALSE, s |-> FALSE, e |-> FALSE]

\* what a step reports: the handler that ran and what it did
Report(op) == [op |-> op, key |-> "", dt |-> 0, speedBefore |-> 0,
               checked |-> FALSE, hit |-> FALSE,
               contact |-> 0, responded |-> FALSE, wipeStarted |-> FALSE,
               wipeEnded |-> FALSE, landed |-> FALSE, autoJumped |-> FALSE,
               picked |-> FALSE, fallback |-> FALSE, scoreBefore |-> 0]

\* the module-level variables as declared, and the scene as init() leaves it
InitGame(world, target) ==
    /\ gameStarted = FALSE
    /\ keys = NoKeys
    /\ gameSpeed = 0
    /\ steerAngle = 0
    /\ leanAngle = 0
    /\ collisionOccurred = FALSE
    /\ collisionCooldown = 0
    /\ playerScore = 0
    /\ objectiveBeam = [x |-> target.x, z |-> target.z]
    /\ sceneBeams = SetToBag({[x |-> target.x, z |-> target.z]})
    /\ isJumping = FALSE
    /\ jumpVelocity = 0
    /\ isWheelieMode = FALSE
    /\ wheelieAngle = 0
    /\ twistAngle = 0
    /\ originalDirection = [x |-> 0, z |-> 0]
    /\ isWipingOut = FALSE
    /\ wipeOutTime = 0
    /\ bicycle = [position |-> [x |-> trailStart.x, y |-> 0, z |-> trailStart.z],
                  rotation |-> [x |-> 0, y |-> 0, z |-> 0]]
    /\ terrain = world.terrain
    /\ obstacles = world.obstacles
    /\ flagTimer = -1
    /\ elapsed = 0
    /\ frames = 0
    /\ keyEvents = 0
    /\ last = Report("init")

Init ==
    /\ \E world \in Worlds :
           \E target \in createObjectiveBeam(world.terrain, world.obstacles) :
               InitGame(world, target)
    /\ budget = PlayBudget
    /\ probe = << >>

-----------------------------------------------------------------------------
(* The handlers *)

\* the mutable program state as one record, with the report of the running step
State(op) ==
    [gameSpeed |-> gameSpeed, steerAngle |-> steerAngle, leanAngle |-> leanAngle,
     collisionOccurred |-> collisionOccurred, collisionCooldown |-> collisionCooldown,
     playerScore |-> playerScore, objectiveBeam |-> objectiveBeam,
     sceneBeams |-> sceneBeams,
     isJumping |-> isJumping, jumpVelocity |-> jumpVelocity,
     isWheelieMode |-> isWheelieMode, wheelieAngle |-> wheelieAngle,
     twistAngle |-> twistAngle, originalDirection |-> originalDirection,
     isWipingOut |-> isWipingOut, wipeOutTime |-> wipeOutTime,
     bicycle |-> bicycle, flagTimer |-> flagTimer,
     op |-> op, key |-> "", dt |-> 0, speedBefore |-> gameSpeed,
     checked |-> FALSE, hit |-> FALSE,
     contact |-> 0, responded |-> FALSE, wipeStarted |-> FALSE,
     wipeEnded |-> FALSE, landed |-> FALSE, autoJumped |-> FALSE, picked |-> FALSE,
     fallback |-> FALSE, scoreBefore |-> playerScore]

Store(s) ==
    /\ gameSpeed' = s.gameSpeed
    /\ steerAngle' = s.steerAngle
    /\ leanAngle' = s.leanAngle
    /\ collisionOccurred' = s.collisionOccurred
    /\ collisionCooldown' = s.collisionCooldown
    /\ playerScore' = s.playerScore
    /\ objectiveBeam' = s.objectiveBeam
    /\ sceneBeams' = s.sceneBeams
    /\ isJumping' = s.isJumping
    /\ jumpVelocity' = s.jumpVelocity
    /\ isWheelieMode' = s.isWheelieMode
    /\ wheelieAngle' = s.wheelieAngle
    /\ twistAngle' = s.twistAngle
    /\ originalDirection' = s.originalDirection
    /\ isWipingOut' = s.isWipingOut
    /\ wipeOutTime' = s.wipeOutTime
    /\ bicycle' = s.bicycle
    /\ flagTimer' = s.flagTimer
    /\ last' = [op |-> s.op, key |-> s.key, dt |-> s.dt, speedBefore |-> s.speedBefore,
                checked |-> s.checked,
                hit |-> s.hit, contact |-> s.contact, responded |-> s.responded,
                wipeStarted |-> s.wipeStarted, wipeEnded |-> s.wipeEnded,
                landed |-> s.landed, autoJumped |-> s.autoJumped, picked |-> s.picked,
                fallback |-> s.fallback, scoreBefore |-> s.scoreBefore]

\* the wall clock advances by ms: a pending timeout comes that much closer
Elapse(timer, ms) == IF timer = -1 THEN -1 ELSE Max(timer - ms, 0)

\* whether this frame's checkCollisions reads the clock a second time
ReadsClockTwice == ~isWipingOut /\ gameStarted /\ collisionCooldown > 0

\* whether this frame draws the Math.random() of a tree or rock response
DrawsImpactRandom ==
    /\ ~isWipingOut /\ gameStarted /\ collisionCooldown <= 0 /\ ~collisionOccurred
    /\ LET i == FirstContact(obstacles, bicycle.position, isJumping, 1)
       IN  i # 0 /\ obstacles[i].type \in {"tree", "rock"}

\* whether this frame draws the Math.random() of the wheelie balance or the tumble
DrawsBalanceRandom == isWipingOut \/ (gameStarted /\ isWheelieMode)

\* animate(): one frame. dt is clock.getDelta() in animate, eps the reading in
\* checkCollisions, r1 and r2 the Math.random() values the frame draws. A
\* timeout that is due runs before the frame (TimerFire), and the frame's dt
\* is at least the time that has passed by then. Frames are counted
\* against MaxFrames, except those that advance a wipeout (its timeline bounds
\* them).
Frame ==
    \E dt \in DeltaTimes :
      \E eps \in (IF ReadsClockTwice THEN EpsTimes ELSE {0}) :
        \E r1 \in (IF DrawsImpactRandom THEN RandomValues ELSE {0}) :
          \E r2 \in (IF DrawsBalanceRandom THEN RandomValues ELSE {0}) :
            /\ frames < budget.frames \/ (isWipingOut /\ dt > 0)
            /\ flagTimer = -1 \/ dt < flagTimer
            /\ dt >= elapsed
            /\ elapsed' = 0
            /\ frames' = IF isWipingOut /\ dt > 0 THEN frames ELSE frames + 1
            /\ \E s0 \in { [State("frame") EXCEPT !.dt = dt,
                                   !.flagTimer = Elapse(flagTimer, dt + eps)] } :
                 \E s1 \in { updateBicycle(s0, keys, gameStarted, terrain, obstacles,
                                          dt, eps, r1, r2) } :
                   IF WithinPickup(s1)
                   THEN \E p \in createObjectiveBeam(terrain, obstacles) :
                            Store(collectObjective(s1, p))
                   ELSE Store(s1)
            /\ UNCHANGED << gameStarted, keys, terrain, obstacles, keyEvents, budget, probe >>

Keys == {"w", "s", "r", "ArrowLeft", "ArrowRight", "ArrowUp", "ArrowDown", " ", "e",
         "Enter", "c"}

KeyFlag(key) ==
    CASE key = "w" -> "w" [] key = "s" -> "s" [] key = "ArrowLeft" -> "left"
      [] key = "ArrowRight" -> "right" [] key = "ArrowUp" -> "up"
      [] key = "ArrowDown" -> "down" [] key = " " -> "space" [] key = "e" -> "e"
      [] OTHER -> ""

\* KeyDownSwitch with an r key that also ends a wipeout
KeyDownSwitchEndsWipeout(s, key, t) ==
    CASE key = "r" -> [respawnBicycle(s, t) EXCEPT !.isWipingOut = FALSE,
                                                   !.wipeOutTime = 0]
      [] key = "ArrowDown" -> [s EXCEPT !.isWheelieMode = TRUE]
      [] key = " " -> IF ~s.isJumping
                      THEN [s EXCEPT !.isJumping = TRUE, !.jumpVelocity = JUMP_FORCE]
                      ELSE s
      [] OTHER -> s

\* KeyDownSwitch with a jump key that launches in the air as well
KeyDownSwitchDoubleJump(s, key, t) ==
    CASE key = "r" -> respawnBicycle(s, t)
      [] key = "ArrowDown" -> [s EXCEPT !.isWheelieMode = TRUE]
      [] key = " " -> [s EXCEPT !.isJumping = TRUE, !.jumpVelocity = JUMP_FORCE]
      [] OTHER -> s

\* handleKeyDown(event) once the game has started: the switch on event.key
KeyDownSwitch(s, key, t) ==
    CASE key = "r" -> respawnBicycle(s, t)
      [] key = "ArrowDown" -> [s EXCEPT !.isWheelieMode = TRUE]
      [] key = " " -> IF ~s.isJumping
                      THEN [s EXCEPT !.isJumping = TRUE, !.jumpVelocity = JUMP_FORCE]
                      ELSE s
      [] OTHER -> s

\* the key flags after handleKeyDown / handleKeyUp
KeysAfter(k, key, held) ==
    IF KeyFlag(key) = "" THEN k ELSE [k EXCEPT ![KeyFlag(key)] = held]

\* KeyDownResult with the switch on event.key reached before the start as well
KeyDownResultUnstarted(started, k, s, key, t) ==
    IF ~started /\ key = "Enter"
    THEN [started |-> TRUE, keys |-> k, s |-> s]
    ELSE [started |-> started, keys |-> KeysAfter(k, key, TRUE),
          s |-> KeyDownSwitch(s, key, t)]

\* the program state after handleKeyDown(event): gameStarted, keys and the rest
KeyDownResult(started, k, s, key, t) ==
    IF ~started
    THEN [started |-> (key = "Enter"), keys |-> k, s |-> s]
    ELSE [started |-> started, keys |-> KeysAfter(k, key, TRUE),
          s |-> KeyDownSwitch(s, key, t)]

\* the program state after handleKeyUp(event)
KeyUpResult(k, s, key) ==
    [keys |-> KeysAfter(k, key, FALSE),
     s |-> IF key = "ArrowDown" THEN [s EXCEPT !.isWheelieMode = FALSE] ELSE s]

\* handleKeyDown(event). Key presses are counted against MaxKeyEvents; one that
\* changes nothing (an unbound key, a repeat) is a stuttering step
handleKeyDown ==
    \E key \in Keys :
        LET s == [State("keydown") EXCEPT !.key = key]
            n == KeyDownResult(gameStarted, keys, s, key, terrain)
        IN  /\ keyEvents < budget.keys
            /\ n # [started |-> gameStarted, keys |-> keys, s |-> s]
            /\ keyEvents' = keyEvents + 1
            /\ gameStarted' = n.started
            /\ keys' = n.keys
            /\ Store(n.s)
            /\ UNCHANGED << terrain, obstacles, frames, elapsed, budget, probe >>

\* handleKeyUp(event). A release that changes something needs a flag a press
\* has set, so the presses counted against MaxKeyEvents bound the releases
handleKeyUp ==
    \E key \in Keys :
        LET s == [State("keyup") EXCEPT !.key = key]
            n == KeyUpResult(keys, s, key)
        IN  /\ n # [keys |-> keys, s |-> s]
            /\ keys' = n.keys
            /\ Store(n.s)
            /\ UNCHANGED << gameStarted, terrain, obstacles, frames, keyEvents,
                            elapsed, budget, probe >>

\* startButton.onclick of the intro popup (the popup is in the page until the
\* game starts)
startButtonClick ==
    /\ ~gameStarted
    /\ keyEvents < budget.keys
    /\ keyEvents' = keyEvents + 1
    /\ gameStarted' = TRUE
    /\ Store(State("click"))
    /\ UNCHANGED << keys, terrain, obstacles, frames, elapsed, budget, probe >>

\* the callback of setTimeout(() => { collisionOccurred = false; }, 500): it
\* runs once its delay has passed
TimerFire ==
    /\ flagTimer >= 0
    /\ elapsed' = Max(elapsed, flagTimer)
    /\ Store([State("timer") EXCEPT !.collisionOccurred = FALSE, !.flagTimer = -1])
    /\ UNCHANGED << gameStarted, keys, terrain, obstacles, frames, keyEvents, budget,
                    probe >>

Next == Frame \/ handleKeyDown \/ handleKeyUp \/ startButtonClick \/ TimerFire

Spec == Init /\ [][Next]_vars

-----------------------------------------------------------------------------
(* Longer rides: the same handlers followed for more key presses, with the  *)
(* keys pressed limited to those that ride, steer, jump, twist, wheelie and  *)
(* respawn                                                                  *)

MaxRideFrames == 2
MaxRideKeys == 4

RideBudget == [keys |-> MaxRideKeys, frames |-> MaxRideFrames]

\* a target far from the bicycle
FarTarget == [x |-> 200000, z |-> 150000]

RideKeys == {"Enter", "w", " ", "e", "ArrowDown", "ArrowLeft", "r"}

RideInit ==
    /\ \E world \in Worlds : InitGame(world, FarTarget)
    /\ budget = RideBudget
    /\ probe = << >>

\* the steps of a ride: a key event is one of RideKeys
InRide == last.op \in {"keydown", "keyup"} => last.key \in RideKeys

RideNext ==
    \/ Frame /\ InRide'
    \/ handleKeyDown /\ InRide'
    \/ handleKeyUp /\ InRide'
    \/ startButtonClick /\ InRide'
    \/ TimerFire /\ InRide'

RideSpec == RideInit /\ [][RideNext]_vars

-----------------------------------------------------------------------------
(* Wheelie rides: the handlers followed for three frames, with the keys     *)
(* pressed limited to those that start, accelerate, brake, wheelie, jump    *)
(* and respawn                                                              *)

MaxWheelieFrames == 3
MaxWheelieKeys == 3

WheelieBudget == [keys |-> MaxWheelieKeys, frames |-> MaxWheelieFrames]

WheelieKeys == {"Enter", "w", "s", "ArrowDown", "r", " "}

WheelieInit ==
    /\ \E world \in Worlds : InitGame(world, FarTarget)
    /\ budget = WheelieBudget
    /\ probe = << >>

\* the steps of a wheelie ride: a key event is one of WheelieKeys
InWheelieRide == last.op \in {"keydown", "keyup"} => last.key \in WheelieKeys

WheelieNext ==
    \/ Frame /\ InWheelieRide'
    \/ handleKeyDown /\ InWheelieRide'
    \/ handleKeyUp /\ InWheelieRide'
    \/ startButtonClick /\ InWheelieRide'
    \/ TimerFire /\ InWheelieRide'

WheelieSpec == WheelieInit /\ [][WheelieNext]_vars

-----------------------------------------------------------------------------
(* The heightfield query on its own: getTerrainHeight applied to a point *)

gameVars == << gameStarted, keys, gameSpeed, steerAngle, leanAngle, collisionOccurred,
               collisionCooldown, playerScore, objectiveBeam, sceneBeams, isJumping,
               jumpVelocity,
               isWheelieMode, wheelieAngle, twistAngle, originalDirection, isWipingOut,
               wipeOutTime, bicycle, terrain, obstacles, flagTimer, elapsed, frames,
               keyEvents, budget, last >>

\* world coordinates the query is put to: outside the extent, on its edges, on
\* grid vertices and inside cells
ProbeCoords == {-500001, -500000, -497500, -2500, 0, 1234, 5000, 495000, 497500,
                499999, 500000, 500001, 600000}

TerrainInit ==
    /\ \E t \in TerrainKinds : InitGame([terrain |-> t, obstacles |-> << >>], FarTarget)
    /\ budget = PlayBudget
    /\ \E x \in ProbeCoords, z \in ProbeCoords :
           probe = [x |-> x, z |-> z, done |-> FALSE, height |-> 0, reads |-> {}]

\* one call getTerrainHeight(probe.x, probe.z)
QueryTerrain ==
    /\ ~probe.done
    /\ probe' = [probe EXCEPT !.done = TRUE,
                              !.height = getTerrainHeight(terrain, probe.x, probe.z),
                              !.reads = TerrainReads(probe.x, probe.z)]
    /\ UNCHANGED gameVars

TerrainNext == QueryTerrain

TerrainSpec == TerrainInit /\ [][TerrainNext]_vars

-----------------------------------------------------------------------------
(* The log test on its own: checkCollisions with one log near the bicycle *)

\* centres of the probed logs, relative to the bicycle at the trail start
LogCentres == {-6000, -3000, -1600, 0, 1900, 21000}
\* userData.direction of the probed logs: (cos, sin) of the log's rotation
LogDirections == { [x |-> 1000, y |-> 0], [x |-> 0, y |-> 1000], [x |-> 600, y |-> 800],
                   [x |-> -800, y |-> 600] }
\* userData.length (4 + random * 6) and userData.collisionRadius (radius * 1.5)
LogLengths == {4000, 8000}
LogRadii == {600, 900}

LogInit ==
    /\ \E cx \in LogCentres, cz \in LogCentres, d \in LogDirections,
          len \in LogLengths, r \in LogRadii :
           InitGame([terrain |-> "plateau",
                     obstacles |-> << Log(trailStart.x + cx, trailStart.z + cz, r,
                                          d.x, d.y, len) >>], FarTarget)
    /\ budget = PlayBudget
    /\ probe = [done |-> FALSE, hit |-> FALSE, responded |-> FALSE]

\* one call checkCollisions() with no cooldown active
QueryLog ==
    /\ ~probe.done
    /\ LET c == checkCollisions(State("probe"), obstacles, 0, 0)
       IN  probe' = [done |-> TRUE, hit |-> c.hit, responded |-> c.responded]
    /\ UNCHANGED gameVars

LogNext == QueryLog

LogSpec == LogInit /\ [][LogNext]_vars

-----------------------------------------------------------------------------
(* The scan on its own: checkCollisions with several obstacles in reach of  *)
(* the bicycle, on the plateau at height 20 (where createObstacles puts     *)
(* trees, ramps and logs)                                                   *)

\* where the bicycle is when the check runs
ScanPoint == [x |-> trailStart.x, y |-> 20600, z |-> -100000]

\* the obstacles around ScanPoint: none (<< >>), or one of each list
ScanTrees  == { << >>, << Tree(ScanPoint.x + 1500, ScanPoint.z, 1000) >>,
                << Tree(ScanPoint.x, ScanPoint.z - 9000, 1000) >>,
                << Tree(ScanPoint.x + 1500, ScanPoint.z, 1000),
                   Tree(ScanPoint.x, ScanPoint.z + 1200, 1500) >> }
ScanRamps  == { << >>, << Ramp(ScanPoint.x - 1000, ScanPoint.z - 1000, 1400) >> }
ScanLogs   == { << >>, << Log(ScanPoint.x, ScanPoint.z - 1200, 600, 1000, 0, 6000) >>,
                << Log(ScanPoint.x + 8000, ScanPoint.z, 600, 0, 1000, 4000),
                   Log(ScanPoint.x - 300, ScanPoint.z + 800, 900, 600, 800, 8000) >> }

ScanInit ==
    /\ \E ts \in ScanTrees, rs \in ScanRamps, ls \in ScanLogs :
           InitGame([terrain |-> "plateau", obstacles |-> ts \o rs \o ls], FarTarget)
    /\ budget = PlayBudget
    /\ \E jumping \in BOOLEAN :
           probe = [done |-> FALSE, jumping |-> jumping, r |-> 0, result |-> << >>]

\* the state of a started game with the bicycle at ScanPoint, grounded or in the air
ScanState ==
    [State("probe") EXCEPT !.bicycle.position = ScanPoint,
                           !.gameSpeed = 4000,
                           !.isJumping = probe.jumping,
                           !.jumpVelocity = IF probe.jumping THEN 100 ELSE 0]

\* one call checkCollisions() with no cooldown active
QueryScan ==
    /\ ~probe.done
    /\ \E r \in RandomValues :
           probe' = [probe EXCEPT !.done = TRUE, !.r = r,
                                  !.result = checkCollisions(ScanState, obstacles, 0, r)]
    /\ UNCHANGED gameVars

ScanNext == QueryScan

ScanSpec == ScanInit /\ [][ScanNext]_vars

-----------------------------------------------------------------------------
(* The slope signals on their own: the first lines of updateBicycle applied *)
(* to a bicycle at a point of a heightfield, facing a direction            *)

\* headings (bicycle.rotation.y) the signals are computed for
SlopeYaws == {0, 7854, 15708, 31416, -15708}

SlopeInit ==
    /\ \E t \in TerrainKinds : InitGame([terrain |-> t, obstacles |-> << >>], FarTarget)
    /\ budget = PlayBudget
    /\ \E x \in ProbeCoords, z \in ProbeCoords, yaw \in SlopeYaws :
           probe = [x |-> x, z |-> z, yaw |-> yaw, done |-> FALSE, slope |-> << >>]

\* the slope block of one updateBicycle call at (probe.x, probe.z)
QuerySlope ==
    /\ ~probe.done
    /\ probe' = [probe EXCEPT
                    !.done = TRUE,
                    !.slope = Slope([bicycle |->
                                        [position |-> [x |-> probe.x, y |-> 0, z |-> probe.z],
                                         rotation |-> [x |-> 0, y |-> probe.yaw, z |-> 0]]],
                                    terrain)]
    /\ UNCHANGED gameVars

SlopeNext == QuerySlope

SlopeSpec == SlopeInit /\ [][SlopeNext]_vars

-----------------------------------------------------------------------------
(* The end of a jump: the handlers followed from a bicycle that stood on   *)
(* the trail start, jumped on the jump key and has been in the air since,  *)
(* two frames before it comes down                                         *)

\* frames the jump has lasted
AirborneFrames == 47

MaxJumpFrames == 3
MaxJumpKeys == 2

JumpBudget == [keys |-> MaxJumpKeys, frames |-> MaxJumpFrames]

\* the keys that twist, lean, wheelie and accelerate
JumpKeys == {"e", "ArrowUp", "ArrowDown", "w"}

\* the height gained in n frames of a jump: the sum of JUMP_FORCE - i * GRAVITY
\* for i = 1 .. n
Rise(n) == n * JUMP_FORCE - GRAVITY * ((n * (n + 1)) \div 2)

JumpInit ==
    /\ \E world \in Worlds :
          /\ terrain = world.terrain
          /\ obstacles = world.obstacles
          /\ bicycle = [position |->
                           [x |-> trailStart.x,
                            y |-> getTerrainHeight(world.terrain, trailStart.x, trailStart.z)
                                     + 600 + Rise(AirborneFrames),
                            z |-> trailStart.z],
                        rotation |-> [x |-> 0, y |-> 0, z |-> 0]]
    /\ gameStarted = TRUE
    /\ keys = NoKeys
    /\ gameSpeed = 0
    /\ steerAngle = 0
    /\ leanAngle = 0
    /\ collisionOccurred = FALSE
    /\ collisionCooldown = 0
    /\ playerScore = 0
    /\ objectiveBeam = FarTarget
    /\ sceneBeams = SetToBag({FarTarget})
    /\ isJumping = TRUE
    /\ jumpVelocity = JUMP_FORCE - AirborneFrames * GRAVITY
    /\ isWheelieMode = FALSE
    /\ wheelieAngle = 0
    /\ twistAngle = 0
    /\ originalDirection = [x |-> 0, z |-> 0]
    /\ isWipingOut = FALSE
    /\ wipeOutTime = 0
    /\ flagTimer = -1
    /\ elapsed = 0
    /\ frames = 0
    /\ keyEvents = 0
    /\ last = Report("init")
    /\ budget = JumpBudget
    /\ probe = << >>

\* the steps of the jump: a key event is one of JumpKeys
InJump == last.op \in {"keydown", "keyup"} => last.key \in JumpKeys

JumpNext ==
    \/ Frame /\ InJump'
    \/ handleKeyDown /\ InJump'
    \/ handleKeyUp /\ InJump'

JumpSpec == JumpInit /\ [][JumpNext]_vars

-----------------------------------------------------------------------------
(* The game under a fair scheduler: frames with time passing keep being
   rendered, and a due timeout runs *)

\* a frame in which time has passed
FramePositive == Frame /\ last'.dt > 0

\* ENABLED <<FramePositive>>_vars, from the guards of Frame
FramePositiveEnabled ==
    \E dt \in DeltaTimes :
        /\ dt > 0
        /\ frames < budget.frames \/ isWipingOut
        /\ flagTimer = -1 \/ dt < flagTimer
        /\ dt >= elapsed

\* WF_vars(FramePositive), with its enabling condition and its steps spelled out
FrameFairness ==
    \/ []<>(~FramePositiveEnabled)
    \/ []<><<last'.op = "frame" /\ last'.dt > 0>>_vars

LiveSpec == Init /\ [][Next]_vars /\ WF_vars(TimerFire) /\ FrameFairness

-----------------------------------------------------------------------------
(* Whole jumps: the handlers followed for as many frames as a jump from a   *)
(* standing bicycle lasts, with the keys pressed limited to those that      *)
(* start and jump (neither moves the bicycle over the terrain)              *)

\* frames a jump is followed for
MaxAirFrames == 52
MaxAirKeys == 2

\* frames a jump launched with JUMP_FORCE from the ground needs to come down:
\* Rise(n) <= 0 first at n = 49
JumpLength == 49

AirBudget == [keys |-> MaxAirKeys, frames |-> MaxAirFrames]

AirKeys == {"Enter", " "}

AirInit ==
    /\ \E world \in Worlds : InitGame(world, FarTarget)
    /\ budget = AirBudget
    /\ probe = << >>

\* the steps of a whole jump: a key event is one of AirKeys
InAir == last.op \in {"keydown", "keyup"} => last.key \in AirKeys

AirNext ==
    \/ Frame /\ InAir'
    \/ handleKeyDown /\ InAir'
    \/ handleKeyUp /\ InAir'

\* requestAnimationFrame keeps calling animate
AirSpec == AirInit /\ [][AirNext]_vars /\ WF_vars(TimerFire) /\ FrameFairness

\* The placement loop of createObjectiveBeam, one attempt per step.

\* const maxAttempts = 100
maxAttempts == 100

\* const boundary = terrainSize / 2 - 50
boundary == terrainSize \div 2 - 50000

\* the values Math.random() takes in a placement draw (1/1000)
PlaceRandoms == {0, 999}

\* DrawCoordinate over the whole terrain
DrawCoordinateWholeTerrain(r) == DivT(r * terrainSize, 1000) - terrainSize \div 2

\* (Math.random() * (boundary * 2)) - boundary
DrawCoordinate(r) == DivT(r * (boundary * 2), 1000) - boundary

\* the worlds a target is placed in: bare, or with a tree in the corner of
\* the placement area
PlaceWorlds ==
    { [terrain |-> t, obstacles |-> obs] :
        t \in {"plateau", "bumpy"},
        obs \in { << >>, << Tree(-boundary, -boundary, 1000) >> } }

\* createObjectiveBeam at the top of its loop: x and z are not yet assigned
PlaceInit ==
    /\ \E world \in PlaceWorlds : InitGame(world, FarTarget)
    /\ budget = PlayBudget
    /\ \E peak \in BOOLEAN :
           probe = [pc |-> "loop", wantMountainPeak |-> peak, attempts |-> 0,
                    validPosition |-> FALSE, x |-> NaN, z |-> NaN, fallback |-> FALSE]

\* one iteration of while (!validPosition && attempts < maxAttempts)
PlaceAttempt ==
    /\ probe.pc = "loop" /\ ~probe.validPosition /\ probe.attempts < maxAttempts
    /\ \E rx \in PlaceRandoms, rz \in PlaceRandoms :
           LET p == [x |-> DrawCoordinate(rx), z |-> DrawCoordinate(rz)]
           IN  probe' = [probe EXCEPT
                           !.attempts = probe.attempts + 1,
                           !.x = p.x,
                           !.z = p.z,
                           !.validPosition =
                               ValidPlacement(terrain, obstacles, probe.wantMountainPeak, p)]
    /\ UNCHANGED gameVars

\* the loop left with an accepted attempt: the beam is built at (x, z)
PlaceAccepted ==
    /\ probe.pc = "loop" /\ probe.validPosition
    /\ probe' = [probe EXCEPT !.pc = "done"]
    /\ UNCHANGED gameVars

\* the loop left after maxAttempts failures: if (!validPosition), one more
\* draw, unchecked, and the beam is built at it
PlaceFallback ==
    /\ probe.pc = "loop" /\ ~probe.validPosition /\ probe.attempts >= maxAttempts
    /\ \E rx \in PlaceRandoms, rz \in PlaceRandoms :
           probe' = [probe EXCEPT !.pc = "done", !.fallback = TRUE,
                                  !.x = DrawCoordinate(rx), !.z = DrawCoordinate(rz)]
    /\ UNCHANGED gameVars

PlaceNext == PlaceAttempt \/ PlaceAccepted \/ PlaceFallback

\* the loop is sequential code: it runs on while it has a step to take
PlaceSpec == PlaceInit /\ [][PlaceNext]_vars /\ WF_vars(PlaceNext)

\* the wheelie rides under the same scheduling
LiveWheelieSpec ==
    WheelieInit /\ [][WheelieNext]_vars /\ WF_vars(TimerFire) /\ FrameFairness

-----------------------------------------------------------------------------
(* Properties of the vehicle physics *)

\* C1: in every reachable state the scalar speed lies in the closed interval
\* from 0 to MAX_SPEED: 0 <= gameSpeed <= MAX_SPEED.
SpeedInRange == 0 <= gameSpeed /\ gameSpeed <= MAX_SPEED

\* a frame in which the throttle was held and the speed was cut off at its target
SpeedCutOffAtTarget ==
    /\ last.op = "frame" /\ last.checked /\ keys.w
    /\ gameSpeed = SPEED_CAP /\ last.speedBefore < gameSpeed

\* C2: no state at the end of a frame has the vehicle outside a wipeout with a
\* wheelie angle above CRITICAL_WHEELIE_ANGLE; a frame that raises the angle
\* past the critical angle ends with isWipingOut = true.
WheelieWithinCritical ==
    /\ ~isWipingOut => wheelieAngle <= CRITICAL_WHEELIE_ANGLE
    /\ (last.op = "frame" /\ last.checked /\ wheelieAngle > CRITICAL_WHEELIE_ANGLE)
           => isWipingOut

\* a frame whose wheelie block passed the critical angle and called startWipeOut
WheeliePassedCritical ==
    /\ last.op = "frame" /\ last.wipeStarted /\ isWipingOut
    /\ wheelieAngle > CRITICAL_WHEELIE_ANGLE

\* the score a frame ends with when it respawns the bicycle: the frame's pickup
\* check runs after the respawn, with the bicycle at the spawn point
ScoreAfterRespawn ==
    LET spawn == spawnPosition(terrain)
    IN  IF Distance(spawn.x, spawn.z, objectiveBeam.x, objectiveBeam.z) < pickupRadius
        THEN 1 ELSE 0

\* the state a wipeout frame must end with, the score apart
WipeoutFrame(dt) ==
    IF wipeOutTime + dt >= 2000
    THEN /\ ~isWipingOut' /\ wipeOutTime' = 0 /\ ~isJumping'
         /\ gameSpeed' = 0 /\ wheelieAngle' = 0
         /\ bicycle'.position = spawnPosition(terrain)
    ELSE /\ isWipingOut' /\ wipeOutTime' = wipeOutTime + dt

\* C3 as stated: the frame that ends the wipeout ends with score 0.
WipeoutEndsScoreZero ==
    [][(last'.op = "frame" /\ isWipingOut)
           => /\ WipeoutFrame(last'.dt)
              /\ wipeOutTime + last'.dt >= 2000 => playerScore' = 0]_vars

\* C3: a wipeout ends on the first frame at which the deltaTime accumulated
\* since it started reaches 2.0 s, and not before; that frame ends Grounded
\* (isWipingOut false, wipeOutTime 0, isJumping false) with speed 0, wheelie
\* angle 0 and the position at the spawn point, and with the score 0, or 1 when
\* the target lies within the pickup radius of the spawn point; under frames
\* with positive deltaTime every wipeout ends.
WipeoutEnds ==
    /\ [][(last'.op = "frame" /\ isWipingOut)
             => /\ WipeoutFrame(last'.dt)
                /\ wipeOutTime + last'.dt >= 2000 => playerScore' = ScoreAfterRespawn]_vars
    /\ isWipingOut ~> ~isWipingOut

\* a frame that ended a wipeout and picked the target up at the spawn point
WipeoutEndedWithPickup ==
    /\ last.op = "frame" /\ last.wipeEnded /\ ~isWipingOut /\ wipeOutTime = 0
    /\ bicycle.position = spawnPosition(terrain) /\ playerScore = 1

-----------------------------------------------------------------------------
(* Properties of the collision detector *)

\* C4: whenever checkCollisions runs with no cooldown active, a positive speed
\* and a Tree the first obstacle in contact, gameSpeed is 0 and
\* collisionCooldown is 1.5 s when it returns; and a call made while
\* collisionCooldown > 0 reports no collision and applies no response, whatever
\* obstacles overlap: it changes the cooldown only.
TreeCollisionStops ==
    /\ (gameStarted /\ ~isWipingOut) =>
         \A eps \in EpsTimes, r \in RandomValues :
            LET s == State("frame")
                c == checkCollisions(s, obstacles, eps, r)
                i == FirstContact(obstacles, bicycle.position, isJumping, 1)
            IN  /\ (collisionCooldown <= 0 /\ gameSpeed > 0 /\ i # 0
                       /\ obstacles[IF i = 0 THEN 1 ELSE i].type = "tree")
                      => (c.hit /\ c.gameSpeed = 0 /\ c.collisionCooldown = 1500)
                /\ collisionCooldown > 0
                      => /\ ~c.hit /\ ~c.responded
                         /\ c = [s EXCEPT !.collisionCooldown = collisionCooldown - eps]
    /\ (last.op = "frame" /\ last.responded /\ obstacles[last.contact].type = "tree")
          => (last.hit /\ collisionCooldown = 1500)
    /\ (last.op = "frame" /\ last.checked /\ last.hit) => last.responded

\* a frame in which the moving bicycle hit the tree
TreeWasHit ==
    /\ last.op = "frame" /\ last.responded /\ last.speedBefore > 0
    /\ obstacles[last.contact].type = "tree" /\ collisionCooldown = 1500

\* C5 as stated: in every frame of a started game in which the vehicle is not
\* wiping out, an active collisionCooldown decreases by that frame's deltaTime.
CooldownFollowsFrameTime ==
    [][(last'.op = "frame" /\ gameStarted /\ ~isWipingOut /\ collisionCooldown > 0)
           => collisionCooldown' = collisionCooldown - last'.dt]_vars

-----------------------------------------------------------------------------
(* Properties of the heightfield query *)

\* C6: for every point with |x| > terrainSize / 2 or |z| > terrainSize / 2,
\* getTerrainHeight returns 0 and reads no sample of the heightfield.
OutsideIsZero ==
    (probe.done /\ (Abs(probe.x) > terrainSize \div 2 \/ Abs(probe.z) > terrainSize \div 2))
        => (probe.height = 0 /\ probe.reads = {})

\* a query just past the +x edge, over ground that is not at height 0
QueriedPastEdge ==
    /\ probe.done /\ probe.x = terrainSize \div 2 + 1 /\ Abs(probe.z) < terrainSize \div 2
    /\ probe.height = 0 /\ probe.reads = {}
    /\ getTerrainHeight(terrain, terrainSize \div 2 - 1, probe.z) # 0

\* C7 as stated: for every point with |x| <= terrainSize / 2 and
\* |z| <= terrainSize / 2, the edges x = 500 and z = 500 included, the cell index
\* is at most gridSize - 1, every sample read has its row and column in
\* 0..gridSize and lies in the array, and the result is a defined number.
ReadsStayInGrid ==
    (probe.done /\ Abs(probe.x) <= terrainSize \div 2 /\ Abs(probe.z) <= terrainSize \div 2)
        => /\ CellIndex(probe.x) <= gridSize - 1
           /\ CellIndex(probe.z) <= gridSize - 1
           /\ \A rd \in probe.reads :
                  /\ rd.row \in 0..gridSize /\ rd.col \in 0..gridSize
                  /\ rd.v \in 0..(vertexPerRow * vertexPerRow - 1)
           /\ probe.height # NaN

\* the bilinear interpolation of the four corner samples of cell (c, r) at (x, z)
CellValue(t, x, z, c, r) ==
    LET cellWidth == terrainSize \div gridSize
        fx == DivT((x + terrainSize \div 2 - c * cellWidth) * 1000, cellWidth)
        fz == DivT((z + terrainSize \div 2 - r * cellWidth) * 1000, cellWidth)
    IN  Lerp(Lerp(VertexHeight(t, c, r), VertexHeight(t, c + 1, r), fx),
             Lerp(VertexHeight(t, c, r + 1), VertexHeight(t, c + 1, r + 1), fx), fz)

\* the cells of the grid whose closed square holds the coordinate
CellsAt(c) == {i \in {CellIndex(c) - 1, CellIndex(c)} :
                  /\ i \in 0..(gridSize - 1)
                  /\ i * (terrainSize \div gridSize) <= c + terrainSize \div 2
                  /\ c + terrainSize \div 2 <= (i + 1) * (terrainSize \div gridSize)}

\* C8 as stated: inside the extent the result is the bilinear interpolation of
\* the four corner samples of the cell that holds the point, whichever of the
\* cells sharing an edge or a vertex is taken (continuity), and at a grid
\* vertex it is the stored sample.
BilinearEverywhere ==
    (probe.done /\ Abs(probe.x) <= terrainSize \div 2 /\ Abs(probe.z) <= terrainSize \div 2)
        => /\ \A c \in CellsAt(probe.x), r \in CellsAt(probe.z) :
                  probe.height = CellValue(terrain, probe.x, probe.z, c, r)
           /\ LET cellWidth == terrainSize \div gridSize
                  col == (probe.x + terrainSize \div 2) \div cellWidth
                  row == (probe.z + terrainSize \div 2) \div cellWidth
              IN  ((probe.x + terrainSize \div 2) % cellWidth = 0
                       /\ (probe.z + terrainSize \div 2) % cellWidth = 0)
                     => probe.height = VertexHeight(terrain, col, row)

-----------------------------------------------------------------------------
(* Properties of the log test *)

\* whether the point p is nearer than R to the nearest point of the segment
\* from a to b, in exact arithmetic (coordinates are multiples of 0.1 unit)
SegmentNearer(p, a, b, R) ==
    LET px == DivT(p.x - a.x, 100)
        pz == DivT(p.z - a.z, 100)
        lx == DivT(b.x - a.x, 100)
        lz == DivT(b.z - a.z, 100)
        ex == DivT(p.x - b.x, 100)
        ez == DivT(p.z - b.z, 100)
        rr == DivT(R, 100)
        dot == px * lx + pz * lz
        L2 == lx * lx + lz * lz
    IN  IF dot <= 0 THEN px * px + pz * pz < rr * rr
        ELSE IF dot >= L2 THEN ex * ex + ez * ez < rr * rr
        ELSE (px * px + pz * pz) * L2 - dot * dot < rr * rr * L2

\* C9: with no cooldown active, a Log that the 20-unit reject does not skip
\* produces a collision exactly when the distance from the vehicle to the
\* nearest point of the segment centre +/- direction * length / 2 (clamped to
\* the end points) is below bicycleRadius + collisionRadius.
LogIsSegmentTest ==
    (probe.done /\ ~Culled(bicycle.position, obstacles[1]))
        => /\ probe.hit <=> SegmentNearer([x |-> bicycle.position.x, z |-> bicycle.position.z],
                                          LogStart(obstacles[1]), LogEnd(obstacles[1]),
                                          bicycleRadius + CollisionRadius(obstacles[1]))
           /\ probe.hit <=> probe.responded

\* a log hit along its length, its centre farther away than the radius sum
LogHitAwayFromCentre ==
    /\ probe.done /\ probe.hit
    /\ Distance(bicycle.position.x, bicycle.position.z, obstacles[1].x, obstacles[1].z)
           > bicycleRadius + CollisionRadius(obstacles[1])

-----------------------------------------------------------------------------
(* Properties of the objective tracker *)

\* C10: a frame whose pickup check finds the horizontal distance from the
\* vehicle to the active target below 5 raises playerScore by exactly 1 (from
\* the score the frame's physics step left) and replaces the target by a newly
\* placed one; a frame that finds the distance 5 or more changes neither.
PickupExactlyWithinRadius ==
    [][last'.op = "frame" =>
          LET near == Distance(bicycle'.position.x, bicycle'.position.z,
                               objectiveBeam.x, objectiveBeam.z) < pickupRadius
              base == IF last'.wipeEnded THEN 0 ELSE playerScore
          IN  IF near
              THEN /\ last'.picked /\ playerScore' = base + 1
                   /\ objectiveBeam' \in {[x |-> p.x, z |-> p.z] :
                                           p \in createObjectiveBeam(terrain, obstacles)}
              ELSE /\ ~last'.picked /\ playerScore' = base
                   /\ objectiveBeam' = objectiveBeam]_vars

\* a frame that picked the target up
TargetPickedUp == last.op = "frame" /\ last.picked /\ playerScore = 1

\* C12: after init the scene holds exactly one objective target, the one
\* objectiveBeam refers to, across any pickups, wipeouts and respawns.
OneActiveTarget == sceneBeams = SetToBag({objectiveBeam})

\* a pickup has replaced the target after a wipeout ended
TargetReplaced ==
    /\ last.picked /\ last.wipeEnded
    /\ BagCardinality(sceneBeams) = 1 /\ BagIn(objectiveBeam, sceneBeams)

\* the placement validity rule at position p: not water, and a peak above 20
\* or clear of every obstacle by 10
PlacementRule(p) ==
    LET height == getTerrainHeight(terrain, p.x, p.z)
    IN  /\ height > -10000
        /\ \/ /\ height > 20000
              /\ \A d \in {<<5000, 0>>, <<-5000, 0>>, <<0, 5000>>, <<0, -5000>>} :
                     height > getTerrainHeight(terrain, p.x + d[1], p.z + d[2])
           \/ \A i \in 1..Len(obstacles) :
                  Distance(p.x, p.z, obstacles[i].x, obstacles[i].z) >= 10000

-----------------------------------------------------------------------------
(* Properties of respawn *)

\* the step ran respawnBicycle: the r key, or the frame that ended a wipeout
RespawnKey == last.op = "keydown" /\ last.key = "r"
Respawned == RespawnKey \/ (last.op = "frame" /\ last.wipeEnded)

\* C13: respawn, from any state before it (grounded, airborne, mid-twist, in
\* wheelie mode, wiping out, in collision cooldown), leaves gameSpeed = 0,
\* isJumping = false, jumpVelocity = 0, isWheelieMode = false, wheelieAngle = 0,
\* steerAngle = 0, leanAngle = 0, playerScore = 0 (before the pickup check of
\* the frame, if a frame ran it), the position at the spawn point and the
\* rotation zero.
RespawnResets ==
    Respawned =>
        /\ gameSpeed = 0 /\ ~isJumping /\ jumpVelocity = 0
        /\ ~isWheelieMode /\ wheelieAngle = 0 /\ steerAngle = 0 /\ leanAngle = 0
        /\ playerScore = (IF last.picked THEN 1 ELSE 0)
        /\ bicycle.position = spawnPosition(terrain)
        /\ bicycle.rotation = [x |-> 0, y |-> 0, z |-> 0]

\* the r key pressed in the air during a twist, with the cooldown running
RespawnedMidTwist == RespawnKey /\ twistAngle # 0 /\ collisionCooldown > 0

\* C14: respawn (the r key or the end of a wipeout) also leaves
\* isWipingOut = false, wipeOutTime = 0, twistAngle = 0 and the stored
\* pre-twist direction cleared.
RespawnResetsWholeState ==
    Respawned =>
        /\ ~isWipingOut /\ wipeOutTime = 0
        /\ twistAngle = 0 /\ originalDirection = [x |-> 0, z |-> 0]

\* C15: a respawn resets the objective target together with the score: after
\* it the score is 0 and the active target is not the one that was active
\* before (here: the r key leaves the score 0 and another target position).
TargetResetOnRespawn ==
    [][RespawnKey' => playerScore' = 0 /\ objectiveBeam' # objectiveBeam]_vars

-----------------------------------------------------------------------------
(* Properties of the order of a frame *)

\* C16: within one frame collision detection runs after the position has been
\* updated for that frame: a frame that ran checkCollisions with no cooldown
\* active and reported no collision does not end with the vehicle in contact
\* with a tree, rock or log (and the pickup check sees the frame's last position,
\* which is C10).
CollisionSeesMovedPosition ==
    [][(last'.op = "frame" /\ last'.checked /\ collisionCooldown <= 0 /\ ~last'.hit) =>
           LET i == FirstContact(obstacles, bicycle'.position, isJumping', 1)
           IN  i = 0 \/ obstacles[i].type = "ramp"]_vars

-----------------------------------------------------------------------------
(* Properties of the states Grounded, Jumping and WipingOut *)

\* C17: Jumping and WipingOut exclude each other and WipingOut is entered only
\* from Grounded: no step sets isWipingOut while isJumping is true, and no
\* state has isJumping and isWipingOut both true.
WipingOutOnlyFromGrounded ==
    [][/\ (~isWipingOut /\ isWipingOut') => ~isJumping
       /\ ~(isJumping' /\ isWipingOut')]_vars

\* C18: while isWipingOut is true no key event, timer or collision ends the
\* wipeout or changes wipeOutTime: a frame adds its deltaTime to wipeOutTime, or,
\* when the sum reaches 2.0, ends the wipeout; every other step leaves both.
WipeoutTerminal ==
    [][isWipingOut =>
          IF last'.op = "frame"
          THEN IF wipeOutTime + last'.dt >= 2000
               THEN ~isWipingOut' /\ wipeOutTime' = 0 /\ last'.wipeEnded
               ELSE isWipingOut' /\ wipeOutTime' = wipeOutTime + last'.dt
          ELSE isWipingOut' /\ wipeOutTime' = wipeOutTime]_vars

\* a key was pressed during a wipeout that had run for some time
KeyPressedInWipeout ==
    /\ isWipingOut /\ wipeOutTime > 0
    /\ last.op = "keydown" /\ last.key \in {" ", "ArrowDown", "ArrowLeft", "r"}

-----------------------------------------------------------------------------
(* Properties of the speed cap *)

\* C19: the speed cap is toggled with the C key: a frame on flat ground with
\* accelerate held (and no obstacle touched) raises the speed by the frame's
\* acceleration up to the cap, which is a third of MAX_SPEED with the cap on
\* and MAX_SPEED with the cap off.
SpeedCapToggles ==
    [][(/\ last'.op = "frame" /\ last'.checked /\ last'.contact = 0
        /\ keys.w /\ Slope(State("frame"), terrain).slopeEffect = 1000) =>
           LET raised == gameSpeed + DivT(last'.dt * 8, 10)
           IN  gameSpeed' \in {Min(raised, MAX_SPEED \div 3), Min(raised, MAX_SPEED)}]_vars

-----------------------------------------------------------------------------
(* Properties of ramps *)

\* the obstacle list without its i-th entry
Without(obs, i) == SubSeq(obs, 1, i - 1) \o SubSeq(obs, i + 1, Len(obs))

\* obstacle i is a ramp within bicycleRadius + collisionRadius of the vehicle
\* and the scan of a collision check gets to it: no cooldown is active and no
\* obstacle before it in the list stops the scan
RampReached(i) ==
    /\ obstacles[i].type = "ramp"
    /\ Distance(bicycle.position.x, bicycle.position.z, obstacles[i].x, obstacles[i].z)
           < bicycleRadius + obstacles[i].collisionRadius
    /\ collisionCooldown <= 0
    /\ \A j \in 1..(i - 1) : ~Contact(bicycle.position, isJumping, obstacles[j])

\* C20: ramp contact never takes the collision-response path. A collision
\* check that gets to a ramp in reach of the vehicle: while airborne, does what
\* it would do without the ramp; while grounded, halves gameSpeed, reports no
\* collision and changes nothing else (cooldown, collisionOccurred, jump state,
\* position and rotation stay).
RampOnlyHalvesSpeed ==
    \A i \in 1..Len(obstacles) : \A r \in RandomValues :
        RampReached(i) =>
            LET s == State("frame")
                c == checkCollisions(s, obstacles, 0, r)
            IN  IF isJumping
                THEN [c EXCEPT !.contact = 0] =
                         [checkCollisions(s, Without(obstacles, i), 0, r)
                              EXCEPT !.contact = 0]
                ELSE c = [s EXCEPT !.gameSpeed = DivT(gameSpeed, 2), !.contact = i]

\* a frame of a moving, grounded vehicle whose collision check got to a ramp
RampSlowedBicycle ==
    /\ last.op = "frame" /\ last.contact # 0 /\ last.speedBefore > 0
    /\ obstacles[last.contact].type = "ramp" /\ ~last.hit /\ ~last.responded

-----------------------------------------------------------------------------
(* Properties of the obstacle scan *)

\* C21: at most one obstacle affects the vehicle per frame: checkCollisions
\* stops at the first obstacle in list order whose contact test succeeds; the
\* obstacles before it have no effect, those after it are not examined, and at
\* most one response is applied (that of the first obstacle in contact).
ScanStopsAtFirstContact ==
    probe.done =>
        LET s == ScanState
            touched == {i \in 1..Len(obstacles) :
                           Contact(ScanPoint, probe.jumping, obstacles[i])}
        IN  IF touched = {}
            THEN probe.result = s
            ELSE LET m == CHOOSE i \in touched : \A j \in touched : i <= j
                 IN  /\ probe.result.contact = m
                     /\ probe.result =
                            checkCollisions(s, SubSeq(obstacles, 1, m), 0, probe.r)
                     /\ checkCollisions(s, SubSeq(obstacles, 1, m - 1), 0, probe.r) = s
                     /\ probe.result.responded =>
                            probe.result =
                                [handleCollision(s, obstacles[m], probe.r)
                                     EXCEPT !.hit = TRUE, !.contact = m]

\* a check that found two obstacles in contact and responded to the first
TwoObstaclesTouched ==
    /\ probe.done /\ probe.result.responded
    /\ Cardinality({i \in 1..Len(obstacles) :
                        Contact(ScanPoint, probe.jumping, obstacles[i])}) >= 2

-----------------------------------------------------------------------------
(* Properties of the score *)

\* C22: the score is never negative and changes in two ways only: a respawn
\* (the r key, or the end of a wipeout) sets it to 0 and a pickup adds 1; every
\* other step (frame, collision, wipeout phase, key event, timer) leaves it.
ScoreChangesByPickupOrRespawn ==
    [][/\ playerScore >= 0 /\ playerScore' >= 0
       /\ playerScore' = (IF Respawned' THEN 0 ELSE playerScore)
                             + (IF last'.picked THEN 1 ELSE 0)]_vars

\* the r key has reset a score that pickups had raised
ScoreResetByKey == RespawnKey /\ last.scoreBefore > 0 /\ playerScore = 0

\* a frame that ran the physics of a bicycle on the ground with the wheelie
\* input released
RecoveryFrame ==
    /\ last'.op = "frame" /\ last'.checked
    /\ ~keys.down /\ ~isJumping

\* C23: while the wheelie input is released and the bicycle is on the ground
\* and not wiping out, the wheelie angle falls in every frame with a positive
\* deltaTime until it is 0 and then stays 0; it falls by deltaTime * 0.6 above
\* the safe threshold and by deltaTime * 1.2 at or below it
WheelieRecovers ==
    [][RecoveryFrame =>
         /\ wheelieAngle # 0 /\ last'.dt > 0 => wheelieAngle' < wheelieAngle
         /\ wheelieAngle = 0 => wheelieAngle' = 0
         /\ wheelieAngle' =
                Max(wheelieAngle - last'.dt * (IF wheelieAngle > MAX_SAFE_WHEELIE_ANGLE
                                               THEN 6 ELSE 12), 0)]_vars

\* C24: the slope factor is always in [0, 1]; the slope effect is
\* 1 - 0.95 * slopeFactor uphill, 1 + 0.4 * slopeFactor downhill and exactly 1
\* on flat ground, so it always lies in [0.05, 1.4]
SlopeEffectInRange ==
    probe.done =>
        LET sl == probe.slope
        IN  /\ 0 <= sl.slopeFactor /\ sl.slopeFactor <= 1000
            /\ 50 <= sl.slopeEffect /\ sl.slopeEffect <= 1400
            /\ sl.isUphillSlope => sl.slopeEffect = 1000 - DivT(sl.slopeFactor * 95, 100)
            /\ sl.isDownhillSlope => sl.slopeEffect = 1000 + DivT(sl.slopeFactor * 4, 10)
            /\ ~sl.isUphillSlope /\ ~sl.isDownhillSlope =>
                   sl.slopeFactor = 0 /\ sl.slopeEffect = 1000

\* the signals were computed on a rise of more than 3 units over the 1.5 units
\* ahead: the steepness limit applies
SteepRiseQueried ==
    /\ probe.done
    /\ probe.slope.isUphillSlope /\ probe.slope.heightDifference > 3000
    /\ probe.slope.slopeEffect = 50

GuardNeverDropsCollision ==
    /\ [](collisionOccurred => collisionCooldown > 0)
    /\ [][last'.op = "frame" /\ last'.hit =>
              /\ ~collisionOccurred
              /\ last'.responded
              /\ collisionOccurred' /\ collisionCooldown' = 1500]_vars

\* frames have counted the cooldown down while the flag of the same response
\* is still set
CooldownRunsUnderFlag ==
    collisionOccurred /\ collisionCooldown < 1500 /\ last.op = "frame" /\ last.checked

\* the fraction (in tenths) of JUMP_FORCE a response to an obstacle of this
\* type bounces a grounded bicycle with
BounceOf(type) == CASE type = "tree" -> 8 [] type = "rock" -> 6 [] OTHER -> 7

\* the speed a response to an obstacle of this type leaves
SpeedAfter(type, speed) ==
    CASE type = "tree" -> 0 [] type = "rock" -> DivT(speed, 10) [] OTHER -> DivT(speed, 5)

\* C27: a tree response sets the speed to 0, a rock response multiplies it by
\* 0.1, a log response by 0.2; after any of them isJumping is true, with
\* jumpVelocity 0.8, 0.6 or 0.7 times JUMP_FORCE if the bicycle was on the
\* ground and unchanged if it was in the air. (The rest of the frame then runs
\* the airborne branch on that state: one GRAVITY step, unless a wheelie
\* wipeout ends the frame before it.)
ResponseByType ==
    [][last'.op = "frame" /\ last'.responded =>
         LET type == obstacles[last'.contact].type
             launch == IF isJumping THEN jumpVelocity
                       ELSE DivT(JUMP_FORCE * BounceOf(type), 10)
         IN  /\ type \in {"tree", "rock", "log"}
             /\ \A r \in RandomValues :
                    LET c == checkCollisions(State("frame"), obstacles, 0, r)
                    IN  /\ c.responded /\ c.contact = last'.contact
                        /\ c.gameSpeed = SpeedAfter(type, gameSpeed)
                        /\ c.isJumping
                        /\ c.jumpVelocity = launch
             /\ isJumping' \/ last'.landed
             /\ jumpVelocity' = launch - (IF last'.wipeStarted THEN 0 ELSE GRAVITY)
             /\ ~keys.w => gameSpeed' <= SpeedAfter(type, gameSpeed)]_vars

\* a response was applied to a bicycle in the air: its jumpVelocity is not the
\* bounce of the obstacle
RespondedInTheAir ==
    /\ last.op = "frame" /\ last.responded /\ ~last.wipeStarted
    /\ jumpVelocity # DivT(JUMP_FORCE * BounceOf(obstacles[last.contact].type), 10) - GRAVITY

\* C28: in every frame of a started game outside a wipeout, isWheelieMode is
\* true exactly when the Down arrow is held, under any interleaving of key
\* events with frames, wipeouts and respawns
WheelieModeTracksKey ==
    [][last'.op = "frame" /\ last'.checked => (isWheelieMode <=> keys.down)]_vars

\* what a step may do to the jump state: a jump key, a collision response or a
\* frame with the bicycle in the air leaves isJumping and the launch alone; a
\* frame in the air takes GRAVITY off jumpVelocity once (a frame that a wheelie
\* wipeout ends takes nothing); jumpVelocity changes otherwise only when
\* isJumping goes from false to true
JumpRules ==
    /\ isJumping /\ last'.op = "keydown" /\ last'.key = " " =>
           isJumping' /\ jumpVelocity' = jumpVelocity
    /\ isJumping /\ last'.op = "frame" =>
           /\ ~last'.autoJumped
           /\ jumpVelocity' \in {jumpVelocity, jumpVelocity - GRAVITY}
           /\ last'.checked /\ ~last'.wipeStarted => jumpVelocity' = jumpVelocity - GRAVITY
    /\ ~isJumping /\ last'.op = "keydown" /\ last'.key = " " /\ gameStarted =>
           isJumping' /\ jumpVelocity' = JUMP_FORCE
    /\ jumpVelocity' # jumpVelocity => (~isJumping /\ isJumping') \/ isJumping
    /\ ~isJumping /\ isJumping' =>
           \/ last'.op = "keydown" /\ last'.key = " "
           \/ last'.op = "frame" /\ (last'.responded \/ last'.autoJumped)

\* C29: Jumping is entered only from a non-jumping state and there is no double
\* jump: a jump key-down, a collision bounce or a hill crest while isJumping is
\* true leaves isJumping and jumpVelocity unchanged; jumpVelocity gets a launch
\* value only when isJumping goes from false to true and otherwise changes only
\* by GRAVITY, once per frame in the air
NoDoubleJump == [][JumpRules]_vars

\* the same, with the respawn (the r key, the end of a wipeout) as the one
\* other step that writes the jump state: it leaves isJumping = false and
\* jumpVelocity = 0
NoDoubleJumpButRespawn ==
    [][IF Respawned' THEN ~isJumping' /\ jumpVelocity' = 0 ELSE JumpRules]_vars

\* the jump key was pressed again with the bicycle in the air, past its launch
JumpKeyInTheAir ==
    /\ last.op = "keydown" /\ last.key = " "
    /\ isJumping /\ jumpVelocity < JUMP_FORCE /\ ~isWipingOut

\* a frame that ran the airborne branch of updateBicycle
AirborneFrame ==
    /\ last'.op = "frame" /\ last'.checked /\ ~last'.wipeStarted
    /\ isJumping \/ last'.responded

\* the landing test on the position and velocity a frame leaves
OnGroundFalling ==
    /\ bicycle'.position.y <=
           getTerrainHeight(terrain, bicycle'.position.x, bicycle'.position.z) + 600
    /\ jumpVelocity' < 0

\* the airborne frame lands exactly on its landing test: then isJumping is
\* false, the bicycle is on the terrain and twistAngle is 0; if the test fails
\* the bicycle stays in the air
LandingRule ==
    /\ last'.landed => AirborneFrame
    /\ AirborneFrame /\ last'.landed =>
           /\ ~isJumping' /\ OnGroundFalling
           /\ bicycle'.position.y =
                  getTerrainHeight(terrain, bicycle'.position.x, bicycle'.position.z) + 600
           /\ twistAngle' = 0
    /\ AirborneFrame /\ ~last'.landed => isJumping' /\ ~OnGroundFalling

\* no pre-twist direction is stored
NoDirection == [x |-> 0, z |-> 0]

\* the orientation after a landing is the yaw with the lean as roll, and no
\* pre-twist direction is stored
UprightAfterLanding ==
    /\ bicycle'.rotation.x = 0 /\ bicycle'.rotation.z = leanAngle'
    /\ originalDirection' = NoDirection

\* C30: in an airborne frame, if after the move position.y <= terrain height
\* + 0.6 and jumpVelocity < 0, then at the end of the frame isJumping is false,
\* position.y is the terrain height + 0.6, twistAngle is 0 and the orientation
\* is yaw plus lean only, with no pre-twist direction stored; otherwise the
\* bicycle stays in Jumping
LandingRestoresOrientation ==
    [][LandingRule /\ (last'.landed => UprightAfterLanding)]_vars

\* the same, with the orientation restored only after a twist: a landing with
\* a pre-twist direction stored (or a twist in the landing frame) sets the yaw
\* of that direction and the lean as roll and clears the direction; a landing
\* without one leaves the rotation as the jump began with
LandingRestoresAfterTwist ==
    [][/\ LandingRule
       /\ last'.landed /\ (originalDirection # NoDirection \/ keys.e) => UprightAfterLanding
       /\ last'.landed /\ originalDirection # NoDirection /\ twistAngle # 0 =>
              bicycle'.rotation.y = Atan2(-originalDirection.x, -originalDirection.z)
       /\ last'.landed /\ originalDirection = NoDirection /\ ~keys.e =>
              /\ bicycle'.rotation = bicycle.rotation
              /\ originalDirection' = NoDirection]_vars

\* the bicycle has landed in a frame that twisted it
LandedFromTwist == last.op = "frame" /\ last.landed /\ keys.e

\* C31: every jump ends: from a state of a started game with isJumping true, as
\* frames go on, a state with isJumping false (a landing or a respawn) is
\* reached. (The frames followed are bounded: the jumps are those with the
\* frames of a whole jump still to run.)
JumpEnds ==
    (isJumping /\ gameStarted /\ frames + JumpLength <= budget.frames) ~> ~isJumping

\* the bicycle has come down from a jump it began on the ground
JumpLanded == last.op = "frame" /\ last.landed /\ frames >= JumpLength

\* a frame that reaches the jump test of updateBicycle with a bicycle that is
\* not jumping: started, not wiping out, no collision bounce and no wheelie
\* wipeout in the frame
GroundedFrame ==
    /\ last'.op = "frame" /\ last'.checked
    /\ ~isJumping /\ ~last'.responded /\ ~last'.wipeStarted

\* Math.max(lo, Math.min(hi, v))
Clamp(v, lo, hi) == Max(lo, Min(hi, v))

\* C32: a frame of a started bicycle that is neither wiping out nor jumping
\* launches it exactly when heightDiff > 0, farAheadHeight - aheadHeight < -0.5
\* and the speed of the frame is above 0.3; the launch velocity is
\* JUMP_FORCE * (speed / MAX_SPEED) * clamp(2 * |farHeightDiff|, 0.5, 2.0); a
\* frame of a jumping bicycle launches nothing
HillCrestLaunch ==
    [][/\ GroundedFrame =>
            LET c == checkCollisions(State("frame"), obstacles, 0, 0)
                sl == Slope(c, terrain)
                speed == UpdateSpeed(c, keys, last'.dt, sl).gameSpeed
                crest == /\ sl.heightDifference # NaN /\ sl.heightDifference > 0
                         /\ sl.farHeightDifference # NaN /\ sl.farHeightDifference < -500
                         /\ speed > 3000
            IN  /\ last'.autoJumped <=> crest
                /\ isJumping' <=> crest
                /\ crest => jumpVelocity' =
                       DivT(DivT(JUMP_FORCE * speed, MAX_SPEED)
                               * Clamp(2 * Abs(sl.farHeightDifference), 500, 2000), 1000)
                /\ ~crest => jumpVelocity' = jumpVelocity
       /\ last'.op = "frame" /\ ~GroundedFrame => ~last'.autoJumped]_vars

\* a hill crest has launched the bicycle
LaunchedOffCrest == last.op = "frame" /\ last.autoJumped /\ isJumping /\ jumpVelocity > 0

\* C33: at the end of every frame in which the bicycle is on the ground
\* throughout (started, not jumping, not wiping out, no launch), position.y is
\* the terrain height at the position the bicycle has after the frame's
\* translation, plus 0.6
TerrainFollowed ==
    [][GroundedFrame /\ ~last'.autoJumped =>
         bicycle'.position.y =
            getTerrainHeight(terrain, bicycle'.position.x, bicycle'.position.z) + 600]_vars

\* C34: in a frame in which accelerate is not held gameSpeed never increases:
\* with brake held the speed block takes deltaTime * 0.2 off it (times
\* 1 - 0.5 * slopeFactor on a downhill), otherwise deltaTime * 0.1 (0.05 on a
\* downhill), floored at 0; so the speed rises only in frames with accelerate
\* held
SpeedFallsWithoutAccelerate ==
    [][/\ gameSpeed' > gameSpeed => last'.op = "frame" /\ keys.w
       /\ (last'.op = "frame" /\ last'.checked /\ last'.contact = 0 /\ ~keys.w) =>
             LET sl == Slope(State("frame"), terrain)
                 downhill == sl.heightDifference # NaN /\ sl.heightDifference < 0
                 drop == IF keys.s
                         THEN IF downhill
                              THEN DivT(last'.dt * DivT(200 * (1000 - sl.slopeFactor \div 2),
                                                        1000), 100)
                              ELSE last'.dt * 2
                         ELSE IF downhill THEN last'.dt \div 2 ELSE last'.dt
             IN  gameSpeed' = Max(gameSpeed - drop, 0)]_vars

\* the brake has slowed a moving bicycle on a downhill, not to a halt
BrakedDownhill ==
    /\ last.op = "frame" /\ last.checked /\ last.contact = 0
    /\ keys.s /\ ~keys.w /\ terrain = "downhill"
    /\ 0 < gameSpeed /\ gameSpeed < last.speedBefore

\* C35: in every reachable state |steerAngle| <= 0.12 (MAX_STEER) and
\* |leanAngle| <= 0.3 (MAX_LEAN), whatever the inputs and the deltaTimes
SteerAndLeanWithinLimits ==
    /\ -MAX_STEER <= steerAngle /\ steerAngle <= MAX_STEER
    /\ -MAX_LEAN <= leanAngle /\ leanAngle <= MAX_LEAN

\* a long frame with the left key held has turned the steering to its limit
SteerAtLimit ==
    /\ last.op = "frame" /\ last.checked /\ last.dt * 3 > MAX_STEER
    /\ keys.left /\ steerAngle = MAX_STEER

\* C36: in every reachable state the wheelie angle is never negative and
\* never exceeds 0.9 * pi, the tip-over limit of the wipeout animation
WheelieAngleWithinLimits ==
    /\ wheelieAngle >= 0
    /\ wheelieAngle <= (9 * PI) \div 10

\* a frame that ran the physics step to its move
PhysicsFrame == last'.op = "frame" /\ last'.checked /\ ~last'.wipeStarted

\* a physics frame that moved the bicycle on the ground: it neither flew
\* nor launched a jump
GroundMove == PhysicsFrame /\ ~isJumping' /\ ~last'.landed

\* the yaw has advanced by steerAngle * gameSpeed, both as the frame set them
YawAdvanced ==
    bicycle'.rotation.y = bicycle.rotation.y + DivT(steerAngle' * gameSpeed', 10000)

\* C37: in every frame of the Grounded/Jumping path the yaw advances by
\* steerAngle * gameSpeed, so that a frame with gameSpeed = 0 leaves the yaw
\* unchanged whatever the steering input
YawAdvancesWithSpeed ==
    [][PhysicsFrame => YawAdvanced]_vars

\* the same for the frames that move the bicycle on the ground only; an
\* airborne frame (a launch from a hill crest or a collision bounce
\* included) leaves the yaw alone at any speed, unless it twists the bicycle
\* or lands it
YawAdvancesOnGround ==
    [][/\ GroundMove => YawAdvanced
       /\ GroundMove /\ gameSpeed' = 0 => bicycle'.rotation.y = bicycle.rotation.y
       /\ PhysicsFrame /\ ~GroundMove /\ ~keys.e /\ ~last'.landed =>
              bicycle'.rotation.y = bicycle.rotation.y]_vars

\* a frame on the ground has turned the bicycle: it steered at speed
TurnedOnGround ==
    /\ last.op = "frame" /\ last.checked /\ ~isJumping /\ ~last.landed
    /\ steerAngle # 0 /\ gameSpeed > 0 /\ bicycle.rotation.y # 0

\* the state of the vehicle
VehicleState ==
    << bicycle, gameSpeed, steerAngle, leanAngle, wheelieAngle, isWheelieMode,
       isJumping, jumpVelocity, twistAngle, originalDirection, isWipingOut,
       wipeOutTime, collisionOccurred, collisionCooldown >>

\* C38: while gameStarted is false the vehicle is frozen: no key-down sets a
\* key flag, a jump, the wheelie mode or a respawn, only Enter (or the start
\* button) starts the game, and no frame changes the vehicle state
FrozenBeforeStart ==
    [][~gameStarted =>
          /\ UNCHANGED VehicleState
          /\ keys' = keys
          /\ gameStarted' => last'.op = "click" \/
                              (last'.op = "keydown" /\ last'.key = "Enter")]_vars

\* frames have run on a game that was not started
FramesBeforeStart ==
    ~gameStarted /\ last.op = "frame" /\ last.dt > 0 /\ frames >= 2

\* the placement is within its limits: no more than maxAttempts attempts, the
\* fallback only after all of them, and a target within the boundary
PlacementWithinLimits ==
    /\ probe.attempts <= maxAttempts
    /\ probe.fallback => probe.attempts = maxAttempts /\ ~probe.validPosition
    /\ probe.pc = "done" =>
          /\ probe.validPosition \/ probe.fallback
          /\ -boundary <= probe.x /\ probe.x <= boundary
          /\ -boundary <= probe.z /\ probe.z <= boundary

\* C39: createObjectiveBeam terminates and never fails: it makes at most 100
\* placement attempts, then falls back to one unchecked position, and in
\* every case yields a target whose x and z lie within [-450, 450]
PlacementTerminates ==
    []PlacementWithinLimits /\ <>(probe.pc = "done")

\* the target was placed by the fallback draw after all the attempts failed
PlacedByFallback ==
    probe.pc = "done" /\ probe.fallback /\ probe.attempts = maxAttempts

====
